---------------------------- MODULE Spec2Model ----------------------------
(***************************************************************************)
(* Control logic of the Arducam 64MP image-sensor driver                   *)
(* (drivers/media/i2c/arducam_64mp.c): mode selection, control             *)
(* application, frame timing, and the power / streaming state machine.     *)
(*                                                                         *)
(* Every driver entry point is one action.  The bodies of the C functions  *)
(* are operators over a record d that carries the driver structure, the    *)
(* runtime-PM bookkeeping, the device registers, the list of register      *)
(* writes the running entry point has issued so far, and the outcome the   *)
(* bus gives to each of those writes.                                      *)
(***************************************************************************)
EXTENDS Integers, Sequences, FiniteSets, TLC

(***************************************************************************)
(* Register addresses and limits (the #defines at the top of the file).    *)
(***************************************************************************)
ARDUCAM_64MP_REG_VALUE_08BIT == 1
ARDUCAM_64MP_REG_VALUE_16BIT == 2
ARDUCAM_64MP_REG_MODE_SELECT == 256
ARDUCAM_64MP_MODE_STANDBY == 0
ARDUCAM_64MP_MODE_STREAMING == 1
ARDUCAM_64MP_REG_ORIENTATION == 257
ARDUCAM_64MP_PIXEL_RATE == 900000000
ARDUCAM_64MP_REG_FRAME_LENGTH == 832
ARDUCAM_64MP_FRAME_LENGTH_MAX == 65535
ARDUCAM_64MP_LONG_EXP_SHIFT_MAX == 7
ARDUCAM_64MP_LONG_EXP_SHIFT_REG == 12544
ARDUCAM_64MP_REG_EXPOSURE == 514
ARDUCAM_64MP_EXPOSURE_OFFSET == 48
ARDUCAM_64MP_EXPOSURE_MIN == 9
ARDUCAM_64MP_EXPOSURE_STEP == 1
ARDUCAM_64MP_EXPOSURE_DEFAULT == 1000
ARDUCAM_64MP_EXPOSURE_MAX ==
    ARDUCAM_64MP_FRAME_LENGTH_MAX - ARDUCAM_64MP_EXPOSURE_OFFSET
ARDUCAM_64MP_REG_ANALOG_GAIN == 516
ARDUCAM_64MP_ANA_GAIN_MIN == 0
ARDUCAM_64MP_ANA_GAIN_MAX == 1008
ARDUCAM_64MP_ANA_GAIN_DEFAULT == 0
ARDUCAM_64MP_REG_DIGITAL_GAIN == 526
ARDUCAM_64MP_DGTL_GAIN_MIN == 256
ARDUCAM_64MP_DGTL_GAIN_MAX == 4095
ARDUCAM_64MP_DGTL_GAIN_DEFAULT == 256
ARDUCAM_64MP_REG_TEST_PATTERN == 1536
ARDUCAM_64MP_REG_TEST_PATTERN_R == 1538
ARDUCAM_64MP_REG_TEST_PATTERN_GR == 1540
ARDUCAM_64MP_REG_TEST_PATTERN_B == 1542
ARDUCAM_64MP_REG_TEST_PATTERN_GB == 1544
ARDUCAM_64MP_TEST_PATTERN_COLOUR_MIN == 0
ARDUCAM_64MP_TEST_PATTERN_COLOUR_MAX == 4095
ARDUCAM_64MP_NATIVE_WIDTH == 9344
ARDUCAM_64MP_NATIVE_HEIGHT == 7032
ARDUCAM_64MP_PIXEL_ARRAY_LEFT == 48
ARDUCAM_64MP_PIXEL_ARRAY_TOP == 40
ARDUCAM_64MP_PIXEL_ARRAY_WIDTH == 9248
ARDUCAM_64MP_PIXEL_ARRAY_HEIGHT == 6944

\* errno values returned by the register transport
EIO == 5
EINVAL == 22

(***************************************************************************)
(* Bounds of the model.                                                    *)
(***************************************************************************)
\* Number of leading entries of mode_common_regs[] that are modelled.
CommonRegs == 2
\* Number of leading entries of each mode's register list that are modelled.
ModeRegs == 2
\* Largest runtime-PM usage count the model lets set_stream reach.
MaxUsage == 2

Min(a, b) == IF a < b THEN a ELSE b
Max(a, b) == IF a > b THEN a ELSE b

Prefix(s, n) == SubSeq(s, 1, Min(n, Len(s)))

\* the result x of a step, handed to the rest of the function
Then(x, rest(_)) == rest(x)

Reg(a, v) == [address |-> a, val |-> v]

(***************************************************************************)
(* Register tables.  Only the leading entries are kept: the tables are     *)
(* static data and the driver treats every entry alike.                    *)
(***************************************************************************)
mode_common_regs ==
    Prefix(<< Reg(256, 0), Reg(310, 24), Reg(311, 0), Reg(13296, 1),
              Reg(13297, 3) >>, CommonRegs)

mode_9152x6944_regs ==
    Prefix(<< Reg(834, 182), Reg(835, 178), Reg(832, 27), Reg(833, 118) >>,
           ModeRegs)
mode_8000x6000_regs ==
    Prefix(<< Reg(834, 182), Reg(835, 178), Reg(832, 25), Reg(833, 14) >>,
           ModeRegs)
mode_4624x3472_regs ==
    Prefix(<< Reg(834, 99), Reg(835, 151), Reg(832, 13), Reg(833, 202) >>,
           ModeRegs)
mode_3840x2160_regs ==
    Prefix(<< Reg(834, 78), Reg(835, 183), Reg(832, 8), Reg(833, 185) >>,
           ModeRegs)
mode_2312x1736_regs ==
    Prefix(<< Reg(834, 51), Reg(835, 96), Reg(832, 8), Reg(833, 233) >>,
           ModeRegs)
mode_1920x1080_regs ==
    Prefix(<< Reg(834, 41), Reg(835, 227), Reg(832, 5), Reg(833, 118) >>,
           ModeRegs)
mode_1280x720_regs ==
    Prefix(<< Reg(834, 27), Reg(835, 8), Reg(832, 4), Reg(833, 59) >>,
           ModeRegs)

Rect(l, t, w, h) == [left |-> l, top |-> t, width |-> w, height |-> h]

Mode(w, h, llp, crop, num, den, regs) ==
    [width |-> w, height |-> h, line_length_pix |-> llp, crop |-> crop,
     timeperframe_default |-> [numerator |-> num, denominator |-> den],
     reg_list |-> regs]

supported_modes ==
    << Mode(9152, 6944, 46770,
            Rect(ARDUCAM_64MP_PIXEL_ARRAY_LEFT, ARDUCAM_64MP_PIXEL_ARRAY_TOP,
                 9248, 6944),
            100, 270, mode_9152x6944_regs),
       Mode(8000, 6000, 46770,
            Rect(ARDUCAM_64MP_PIXEL_ARRAY_LEFT + 624,
                 ARDUCAM_64MP_PIXEL_ARRAY_TOP + 472, 9248, 6944),
            100, 300, mode_8000x6000_regs),
       Mode(4624, 3472, 25495,
            Rect(ARDUCAM_64MP_PIXEL_ARRAY_LEFT, ARDUCAM_64MP_PIXEL_ARRAY_TOP,
                 9248, 6944),
            100, 1000, mode_4624x3472_regs),
       Mode(3840, 2160, 20151,
            Rect(ARDUCAM_64MP_PIXEL_ARRAY_LEFT + 784,
                 ARDUCAM_64MP_PIXEL_ARRAY_TOP + 1312, 7680, 4320),
            100, 2000, mode_3840x2160_regs),
       Mode(2312, 1736, 13152,
            Rect(ARDUCAM_64MP_PIXEL_ARRAY_LEFT, ARDUCAM_64MP_PIXEL_ARRAY_TOP,
                 9248, 6944),
            100, 3000, mode_2312x1736_regs),
       Mode(1920, 1080, 10723,
            Rect(ARDUCAM_64MP_PIXEL_ARRAY_LEFT + 784,
                 ARDUCAM_64MP_PIXEL_ARRAY_TOP + 1312, 7680, 4320),
            100, 6000, mode_1920x1080_regs),
       Mode(1280, 720, 6920,
            Rect(ARDUCAM_64MP_PIXEL_ARRAY_LEFT + 2064,
                 ARDUCAM_64MP_PIXEL_ARRAY_TOP + 2032, 5120, 2880),
            100, 12000, mode_1280x720_regs) >>

\* codes[]: bayer order for no flip, h flip, v flip, h&v flips
codes == << "SRGGB10", "SGRBG10", "SGBRG10", "SBGGR10" >>

\* arducam_64mp_test_pattern_val[], indexed from the menu position
arducam_64mp_test_pattern_val == << 0, 2, 1, 3, 4 >>


(***************************************************************************)
(* Controls.  CtrlOrder is the order in which arducam_64mp_init_controls   *)
(* creates the controls the model keeps; it is the order in which the      *)
(* control framework replays them.  Each control has the value handed to   *)
(* the driver's s_ctrl (val, the framework's "new" value, which is what    *)
(* ctrl->val reads) and the committed value (cur).  Digital gain and the   *)
(* four test pattern colours are written exactly as analogue gain is, each *)
(* to its own register, and are not instantiated.                          *)
(***************************************************************************)
CtrlOrder ==
    << "vblank", "hblank", "exposure", "analogue_gain", "hflip", "vflip",
       "test_pattern" >>

CtrlIds == { CtrlOrder[i] : i \in 1..Len(CtrlOrder) }

Ctrl(min, max, def, ro) ==
    [val |-> def, cur |-> def, minimum |-> min, maximum |-> max,
     default_value |-> def, grabbed |-> FALSE, read_only |-> ro]

\* The device registers whose contents the model follows (byte addresses).
\* the first register of every mode table: its content tells which of the
\* tables the device was given last
ModeTableReg == mode_9152x6944_regs[1].address

TrackedRegs == { ARDUCAM_64MP_REG_MODE_SELECT, ModeTableReg }

\* Register contents of a device that is held in reset.
HwReset == [a \in TrackedRegs |-> 0]

Clamp(v, lo, hi) == IF v < lo THEN lo ELSE IF v > hi THEN hi ELSE v

(***************************************************************************)
(* Register access.                                                        *)
(*                                                                         *)
(* d.bus tells which I2C transfers of the running entry point fail,        *)
(* counted over its writes: none, the one at position d.bus.first, or      *)
(* (d.bus.dead) that one and every later one.  Every write is appended     *)
(* to d.wlog with the code site that issued it (d.stage), the value the   *)
(* caller passed (arg), the part of it that fits the register (val) and    *)
(* the value of common_regs_written at that moment.                        *)
(***************************************************************************)
BusFails(bus, n) ==
    bus.first > 0 /\ (n = bus.first \/ (bus.dead /\ n > bus.first))

arducam_64mp_write_reg(d, reg, len, val) ==
    IF len > 4
    THEN [d EXCEPT !.ret = 0 - EINVAL]
    ELSE
      LET n    == Len(d.wlog) + 1
          ok   == ~BusFails(d.bus, n)
          wire == val % (2 ^ (8 * len))
          byte(i) == (wire \div (256 ^ (len - 1 - i))) % 256
          e    == [stage |-> d.stage, reg |-> reg, len |-> len, val |-> wire,
                   arg |-> val, ok |-> ok, crw |-> d.common_regs_written]
      IN  [d EXCEPT
             !.wlog = Append(@, e),
             !.hw = IF ok
                    THEN [a \in DOMAIN d.hw |->
                            IF a >= reg /\ a < reg + len
                            THEN byte(a - reg) ELSE d.hw[a]]
                    ELSE @,
             !.ret = IF ok THEN 0 ELSE 0 - EIO]

RECURSIVE write_regs_continue(_, _, _)
\* faulty variant: the loop goes on after a failed write and returns the
\* result of the last one
write_regs_continue(d, regs, i) ==
    IF i > Len(regs)
    THEN d
    ELSE Then(arducam_64mp_write_reg(d, regs[i].address, 1, regs[i].val),
              LAMBDA w : write_regs_continue(w, regs, i + 1))

RECURSIVE arducam_64mp_write_regs(_, _, _)
\* the loop of arducam_64mp_write_regs, from entry i on
arducam_64mp_write_regs(d, regs, i) ==
    IF i > Len(regs)
    THEN [d EXCEPT !.ret = 0]
    ELSE Then(arducam_64mp_write_reg(d, regs[i].address, 1, regs[i].val),
              LAMBDA w : IF w.ret # 0 THEN w
                         ELSE arducam_64mp_write_regs(w, regs, i + 1))

(***************************************************************************)
(* Runtime PM bookkeeping of the device (usage count and runtime status).  *)
(***************************************************************************)
pm_runtime_get_if_in_use(d) ==
    IF d.rpm_active /\ d.usage_count > 0
    THEN [d EXCEPT !.usage_count = @ + 1, !.ret = 1]
    ELSE [d EXCEPT !.ret = 0]

pm_runtime_put(d) == [d EXCEPT !.usage_count = @ - 1]

pm_runtime_put_noidle(d) == [d EXCEPT !.usage_count = @ - 1]

(***************************************************************************)
(* Frame length and exposure.                                              *)
(***************************************************************************)
RECURSIVE long_exp_loop_early(_, _)
\* faulty variant: shifts a frame length that still fits the register
long_exp_loop_early(val, shift) ==
    IF val >= ARDUCAM_64MP_FRAME_LENGTH_MAX
    THEN long_exp_loop_early(val \div 2, shift + 1)
    ELSE << val, shift >>

RECURSIVE long_exp_loop(_, _)
\* the while loop of arducam_64mp_set_frame_length: <<val, long_exp_shift>>
long_exp_loop(val, shift) ==
    IF val > ARDUCAM_64MP_FRAME_LENGTH_MAX
    THEN long_exp_loop(val \div 2, shift + 1)
    ELSE << val, shift >>

arducam_64mp_set_frame_length(d, vblank) ==
    LET r == long_exp_loop(vblank + supported_modes[d.mode].height, 0)
    IN  Then(arducam_64mp_write_reg([d EXCEPT !.long_exp_shift = r[2]],
                                    ARDUCAM_64MP_REG_FRAME_LENGTH,
                                    ARDUCAM_64MP_REG_VALUE_16BIT, r[1]),
             LAMBDA w1 :
               IF w1.ret # 0 THEN w1
               ELSE arducam_64mp_write_reg(w1, ARDUCAM_64MP_LONG_EXP_SHIFT_REG,
                                           ARDUCAM_64MP_REG_VALUE_08BIT,
                                           w1.long_exp_shift))

RECURSIVE arducam_64mp_set_ctrl(_, _)

\* errno of the control framework for a refused range or a grabbed control
ERANGE == 34
EBUSY == 16

(***************************************************************************)
(* The control framework, as far as the driver relies on it.  A value is   *)
(* clamped to the control's range, handed to the driver's s_ctrl only when *)
(* it differs from the committed value, and committed only when s_ctrl     *)
(* returned success.                                                       *)
(***************************************************************************)
v4l2_set_ctrl(d, id, v) ==
    LET c  == d.ctrls[id]
        nv == Clamp(v, c.minimum, c.maximum)
    IN  IF nv = c.cur
        THEN [d EXCEPT !.ctrls[id].val = nv, !.ret = 0]
        ELSE Then(arducam_64mp_set_ctrl([d EXCEPT !.ctrls[id].val = nv], id),
                  LAMBDA r : IF r.ret # 0 THEN r
                             ELSE [r EXCEPT !.ctrls[id].cur = r.ctrls[id].val])

v4l2_ctrl_modify_range(d, id, min, max, step, def) ==
    IF step = 0 \/ min > max \/ def < min \/ def > max
    THEN [d EXCEPT !.ret = 0 - ERANGE]
    ELSE LET d1 == [d EXCEPT !.ctrls[id].minimum = min,
                             !.ctrls[id].maximum = max,
                             !.ctrls[id].default_value = def]
         IN  v4l2_set_ctrl(d1, id, d1.ctrls[id].cur)

v4l2_ctrl_grab(d, id, grabbed) == [d EXCEPT !.ctrls[id].grabbed = grabbed]

RECURSIVE v4l2_ctrl_handler_setup(_, _)
\* the loop of __v4l2_ctrl_handler_setup, from control i of the list on
v4l2_ctrl_handler_setup(d, i) ==
    IF i > Len(CtrlOrder)
    THEN [d EXCEPT !.ret = 0]
    ELSE IF d.ctrls[CtrlOrder[i]].read_only
         THEN v4l2_ctrl_handler_setup(d, i + 1)
         ELSE Then(arducam_64mp_set_ctrl(
                      [d EXCEPT !.ctrls[CtrlOrder[i]].val
                                   = d.ctrls[CtrlOrder[i]].cur],
                      CtrlOrder[i]),
                   LAMBDA r : IF r.ret # 0 THEN r
                              ELSE v4l2_ctrl_handler_setup(r, i + 1))

arducam_64mp_adjust_exposure_range(d) ==
    LET exposure_max == supported_modes[d.mode].height + d.ctrls["vblank"].val
                        - ARDUCAM_64MP_EXPOSURE_OFFSET
        exposure_def == Min(exposure_max, d.ctrls["exposure"].val)
    IN  v4l2_ctrl_modify_range(d, "exposure", d.ctrls["exposure"].minimum,
                               exposure_max, ARDUCAM_64MP_EXPOSURE_STEP,
                               exposure_def)

\* the switch of arducam_64mp_set_ctrl
arducam_64mp_apply_ctrl(d, id) ==
    LET val == d.ctrls[id].val
        W16(reg, v) == arducam_64mp_write_reg(d, reg,
                                              ARDUCAM_64MP_REG_VALUE_16BIT, v)
    IN  CASE id = "analogue_gain" -> W16(ARDUCAM_64MP_REG_ANALOG_GAIN, val)
          [] id = "exposure" ->
               W16(ARDUCAM_64MP_REG_EXPOSURE,
                   val \div (2 ^ d.long_exp_shift))
          [] id = "digital_gain" -> W16(ARDUCAM_64MP_REG_DIGITAL_GAIN, val)
          [] id = "test_pattern" ->
               W16(ARDUCAM_64MP_REG_TEST_PATTERN,
                   arducam_64mp_test_pattern_val[val + 1])
          [] id = "test_pattern_red" ->
               W16(ARDUCAM_64MP_REG_TEST_PATTERN_R, val)
          [] id = "test_pattern_greenr" ->
               W16(ARDUCAM_64MP_REG_TEST_PATTERN_GR, val)
          [] id = "test_pattern_blue" ->
               W16(ARDUCAM_64MP_REG_TEST_PATTERN_B, val)
          [] id = "test_pattern_greenb" ->
               W16(ARDUCAM_64MP_REG_TEST_PATTERN_GB, val)
          [] id \in {"hflip", "vflip"} ->
               arducam_64mp_write_reg(d, ARDUCAM_64MP_REG_ORIENTATION, 1,
                                      d.ctrls["hflip"].val
                                      + 2 * d.ctrls["vflip"].val)
          [] id = "vblank" -> arducam_64mp_set_frame_length(d, val)
          [] OTHER -> [d EXCEPT !.ret = 0 - EINVAL]

\* faulty variant: writes the register whether or not the device is in use
set_ctrl_unpowered(d, id) ==
    LET d1 == IF id = "vblank"
              THEN arducam_64mp_adjust_exposure_range(d) ELSE d
    IN  arducam_64mp_apply_ctrl([d1 EXCEPT !.stage = "ctrl"], id)

\* faulty variant: an edit of a device that is not in use is refused
set_ctrl_idle_refused(d, id) ==
    LET d1 == IF id = "vblank"
              THEN arducam_64mp_adjust_exposure_range(d) ELSE d
        g  == pm_runtime_get_if_in_use(d1)
    IN  IF g.ret = 0
        THEN [g EXCEPT !.ret = 0 - EIO]
        ELSE pm_runtime_put(
               arducam_64mp_apply_ctrl([g EXCEPT !.stage = "ctrl"], id))

arducam_64mp_set_ctrl(d, id) ==
    Then(pm_runtime_get_if_in_use(
            IF id = "vblank"
            THEN arducam_64mp_adjust_exposure_range(d) ELSE d),
         LAMBDA g :
           IF g.ret = 0
           THEN g
           ELSE pm_runtime_put(
                  arducam_64mp_apply_ctrl([g EXCEPT !.stage = "ctrl"], id)))

(***************************************************************************)
(* Frame timing of a mode.                                                 *)
(***************************************************************************)
RECURSIVE MulDivMod(_, _, _)
\* << (a * b) \div m, (a * b) % m >> without forming the 64-bit product a * b
MulDivMod(a, b, m) ==
    IF a = 0
    THEN << 0, 0 >>
    ELSE LET h  == MulDivMod(a \div 2, b, m)
             qb == IF a % 2 = 1 THEN b \div m ELSE 0
             rb == IF a % 2 = 1 THEN b % m ELSE 0
             t  == 2 * h[2] + rb
         IN  << 2 * h[1] + qb + (t \div m), t % m >>

\* (a * b) % 2^32: the 64-bit product a * b as a 32-bit value, for
\* products whose low 32 bits are below 2^31
u32_product(a, b) ==
    Then(MulDivMod(a, b, 65536),
         LAMBDA p : (p[1] % 65536) * 65536 + p[2])

\* the division of arducam_64mp_get_frame_length: do_div takes its divisor
\* as a 32-bit value
do_div_frame_length(mode, timeperframe) ==
    MulDivMod(timeperframe.numerator, ARDUCAM_64MP_PIXEL_RATE,
              u32_product(timeperframe.denominator, mode.line_length_pix))[1]

\* faulty variant: the quotient is rounded up
frame_length_rounded_up(mode, timeperframe) ==
    Then(MulDivMod(timeperframe.numerator, ARDUCAM_64MP_PIXEL_RATE,
                   u32_product(timeperframe.denominator,
                               mode.line_length_pix)),
         LAMBDA qr :
           Then(IF qr[2] = 0 THEN qr[1] ELSE qr[1] + 1,
                LAMBDA frame_length :
                  Max(IF frame_length > ARDUCAM_64MP_FRAME_LENGTH_MAX
                      THEN ARDUCAM_64MP_FRAME_LENGTH_MAX ELSE frame_length,
                      mode.height)))

arducam_64mp_get_frame_length(mode, timeperframe) ==
    Then(do_div_frame_length(mode, timeperframe),
         LAMBDA frame_length :
           Max(IF frame_length > ARDUCAM_64MP_FRAME_LENGTH_MAX
               THEN ARDUCAM_64MP_FRAME_LENGTH_MAX ELSE frame_length,
               mode.height))

arducam_64mp_set_framing_limits(d) ==
    LET mode == supported_modes[d.mode]
        frm_length_min ==
            arducam_64mp_get_frame_length(mode, mode.timeperframe_default)
        frm_length_default ==
            arducam_64mp_get_frame_length(mode, mode.timeperframe_default)
        d1 == [d EXCEPT !.long_exp_shift = 0]
        d2 == v4l2_ctrl_modify_range(
                 d1, "vblank", frm_length_min - mode.height,
                 ((2 ^ ARDUCAM_64MP_LONG_EXP_SHIFT_MAX)
                  * ARDUCAM_64MP_FRAME_LENGTH_MAX) - mode.height,
                 1, frm_length_default - mode.height)
        d3 == v4l2_set_ctrl(d2, "vblank", frm_length_default - mode.height)
        hblank == mode.line_length_pix - mode.width
    IN  v4l2_ctrl_modify_range(d3, "hblank", hblank, hblank, 1, hblank)

(***************************************************************************)
(* Format negotiation.                                                     *)
(***************************************************************************)
\* faulty variant: the two flips change places in the index
get_format_code_swapped(d) ==
    codes[(IF d.ctrls["hflip"].val # 0 THEN 2 ELSE 0)
          + (IF d.ctrls["vflip"].val # 0 THEN 1 ELSE 0) + 1]

arducam_64mp_get_format_code(d) ==
    codes[(IF d.ctrls["vflip"].val # 0 THEN 2 ELSE 0)
          + (IF d.ctrls["hflip"].val # 0 THEN 1 ELSE 0) + 1]

Abs(x) == IF x < 0 THEN 0 - x ELSE x

SizeError(i, width, height) ==
    Abs(supported_modes[i].width - width)
    + Abs(supported_modes[i].height - height)

\* v4l2_find_nearest_size over supported_modes: index of the nearest entry
v4l2_find_nearest_size(width, height) ==
    CHOOSE i \in 1..Len(supported_modes) :
        /\ \A j \in 1..Len(supported_modes) :
              SizeError(i, width, height) <= SizeError(j, width, height)
        /\ \A j \in 1..(i - 1) :
              SizeError(j, width, height) > SizeError(i, width, height)

\* the pads of the subdevice
IMAGE_PAD == 0
METADATA_PAD == 1
NUM_PADS == 2

\* the one format of the metadata pad
ARDUCAM_64MP_EMBEDDED_LINE_WIDTH == 11560 * 3
ARDUCAM_64MP_NUM_EMBEDDED_LINES == 1
MEDIA_BUS_FMT_SENSOR_DATA == "SENSOR_DATA"

\* what an entry point that hands nothing back leaves with its caller
NoReq == << >>
NoOut == [kind |-> "none"]

\* struct v4l2_subdev_format as a caller passes it and gets it back
SubdevFormat(pad, which, width, height, code) ==
    [kind |-> "fmt", pad |-> pad, which |-> which, width |-> width,
     height |-> height, code |-> code]

\* struct v4l2_mbus_framefmt as far as the driver fills it
Framefmt(width, height, code) ==
    [width |-> width, height |-> height, code |-> code]

\* the format member of fmt
FormatOf(fmt) == Framefmt(fmt.width, fmt.height, fmt.code)

\* fmt with format f as its format member
WithFormat(fmt, f) ==
    [fmt EXCEPT !.width = f.width, !.height = f.height, !.code = f.code]

arducam_64mp_update_image_pad_format(m, fmt) ==
    [fmt EXCEPT !.width = supported_modes[m].width,
                !.height = supported_modes[m].height]

arducam_64mp_update_metadata_pad_format(fmt) ==
    [fmt EXCEPT !.width = ARDUCAM_64MP_EMBEDDED_LINE_WIDTH,
                !.height = ARDUCAM_64MP_NUM_EMBEDDED_LINES,
                !.code = MEDIA_BUS_FMT_SENSOR_DATA]

\* the try formats and try crops of a file handle before
\* arducam_64mp_open has filled them
ZeroState ==
    [try_fmt |-> [p \in 0..(NUM_PADS - 1) |-> Framefmt(0, 0, "none")],
     try_crop |-> [p \in 0..(NUM_PADS - 1) |-> Rect(0, 0, 0, 0)]]

arducam_64mp_open(d) ==
    [d EXCEPT
       !.sd_state.try_fmt[IMAGE_PAD] =
           Framefmt(supported_modes[1].width, supported_modes[1].height,
                    arducam_64mp_get_format_code(d)),
       !.sd_state.try_fmt[METADATA_PAD] =
           Framefmt(ARDUCAM_64MP_EMBEDDED_LINE_WIDTH,
                    ARDUCAM_64MP_NUM_EMBEDDED_LINES,
                    MEDIA_BUS_FMT_SENSOR_DATA),
       !.sd_state.try_crop[IMAGE_PAD] =
           Rect(ARDUCAM_64MP_PIXEL_ARRAY_LEFT, ARDUCAM_64MP_PIXEL_ARRAY_TOP,
                ARDUCAM_64MP_PIXEL_ARRAY_WIDTH,
                ARDUCAM_64MP_PIXEL_ARRAY_HEIGHT),
       !.ret = 0]

\* faulty variant: the requested width and height change places
set_pad_format_transposed(d, fmt) ==
    LET code == arducam_64mp_get_format_code(d)
        mode == v4l2_find_nearest_size(fmt.height, fmt.width)
        f    == arducam_64mp_update_image_pad_format(
                   mode, [fmt EXCEPT !.code = code])
    IN  [arducam_64mp_set_framing_limits(
            [d EXCEPT !.mode = mode, !.fmt_code = code])
         EXCEPT !.ret = 0, !.req = << fmt.width, fmt.height >>, !.out = f]

\* faulty variant: a try format of the image pad is taken for an active one
set_pad_format_try_applied(d, fmt) ==
    IF fmt.pad >= NUM_PADS
    THEN [d EXCEPT !.ret = 0 - EINVAL, !.out = fmt]
    ELSE IF fmt.pad = IMAGE_PAD
    THEN LET code == arducam_64mp_get_format_code(d)
             mode == v4l2_find_nearest_size(fmt.width, fmt.height)
             f    == arducam_64mp_update_image_pad_format(
                        mode, [fmt EXCEPT !.code = code])
         IN  [arducam_64mp_set_framing_limits(
                 [d EXCEPT !.mode = mode, !.fmt_code = code])
              EXCEPT !.ret = 0, !.out = f]
    ELSE [d EXCEPT !.ret = 0, !.out = fmt]

arducam_64mp_set_pad_format(d, fmt) ==
    IF fmt.pad >= NUM_PADS
    THEN [d EXCEPT !.ret = 0 - EINVAL, !.out = fmt]
    ELSE IF fmt.pad = IMAGE_PAD
    THEN LET code == arducam_64mp_get_format_code(d)
             mode == v4l2_find_nearest_size(fmt.width, fmt.height)
             f    == arducam_64mp_update_image_pad_format(
                        mode, [fmt EXCEPT !.code = code])
         IN  IF fmt.which = "try"
             THEN [d EXCEPT !.sd_state.try_fmt[fmt.pad] = FormatOf(f),
                            !.ret = 0, !.out = f]
             ELSE [arducam_64mp_set_framing_limits(
                      [d EXCEPT !.mode = mode, !.fmt_code = code])
                   EXCEPT !.ret = 0, !.req = << fmt.width, fmt.height >>,
                          !.out = f]
    ELSE IF fmt.which = "try"
         THEN [d EXCEPT !.sd_state.try_fmt[fmt.pad] = FormatOf(fmt),
                        !.ret = 0, !.out = fmt]
         ELSE [d EXCEPT !.ret = 0,
                        !.out = arducam_64mp_update_metadata_pad_format(fmt)]

arducam_64mp_get_pad_format(d, fmt) ==
    IF fmt.pad >= NUM_PADS
    THEN [d EXCEPT !.ret = 0 - EINVAL, !.out = fmt]
    ELSE IF fmt.which = "try"
    THEN LET code == IF fmt.pad = IMAGE_PAD
                     THEN arducam_64mp_get_format_code(d)
                     ELSE MEDIA_BUS_FMT_SENSOR_DATA
             d1   == [d EXCEPT !.sd_state.try_fmt[fmt.pad].code = code]
         IN  [d1 EXCEPT !.ret = 0,
                        !.out = WithFormat(fmt,
                                           d1.sd_state.try_fmt[fmt.pad])]
    ELSE IF fmt.pad = IMAGE_PAD
    THEN [d EXCEPT !.ret = 0,
                   !.out = [arducam_64mp_update_image_pad_format(d.mode, fmt)
                            EXCEPT !.code = arducam_64mp_get_format_code(d)]]
    ELSE [d EXCEPT !.ret = 0,
                   !.out = arducam_64mp_update_metadata_pad_format(fmt)]

\* struct v4l2_subdev_mbus_code_enum
MbusCodeEnum(pad, index, code) ==
    [kind |-> "code", pad |-> pad, index |-> index, code |-> code]

\* faulty variant: every index is answered
enum_mbus_code_any_index(d, e) ==
    IF e.pad >= NUM_PADS
    THEN [d EXCEPT !.ret = 0 - EINVAL, !.out = e]
    ELSE [d EXCEPT !.ret = 0,
                   !.out = [e EXCEPT !.code =
                               IF e.pad = IMAGE_PAD
                               THEN arducam_64mp_get_format_code(d)
                               ELSE MEDIA_BUS_FMT_SENSOR_DATA]]

arducam_64mp_enum_mbus_code(d, e) ==
    IF e.pad >= NUM_PADS
    THEN [d EXCEPT !.ret = 0 - EINVAL, !.out = e]
    ELSE IF e.index > 0
    THEN [d EXCEPT !.ret = 0 - EINVAL, !.out = e]
    ELSE [d EXCEPT !.ret = 0,
                   !.out = [e EXCEPT !.code =
                               IF e.pad = IMAGE_PAD
                               THEN arducam_64mp_get_format_code(d)
                               ELSE MEDIA_BUS_FMT_SENSOR_DATA]]

\* struct v4l2_subdev_frame_size_enum; index counts from 0
FrameSizeEnum(pad, index, code) ==
    [kind |-> "size", pad |-> pad, index |-> index, code |-> code,
     min_width |-> 0, max_width |-> 0, min_height |-> 0, max_height |-> 0]

\* fse with the one size w x h
WithSize(fse, w, h) ==
    [fse EXCEPT !.min_width = w, !.max_width = w,
                !.min_height = h, !.max_height = h]

arducam_64mp_enum_frame_size(d, fse) ==
    IF fse.pad >= NUM_PADS
    THEN [d EXCEPT !.ret = 0 - EINVAL, !.out = fse]
    ELSE IF fse.pad = IMAGE_PAD
    THEN IF fse.index >= Len(supported_modes)
         THEN [d EXCEPT !.ret = 0 - EINVAL, !.out = fse]
         ELSE IF fse.code # arducam_64mp_get_format_code(d)
         THEN [d EXCEPT !.ret = 0 - EINVAL, !.out = fse]
         ELSE [d EXCEPT !.ret = 0,
                        !.out = WithSize(fse,
                                         supported_modes[fse.index + 1].width,
                                         supported_modes[fse.index + 1].height)]
    ELSE IF fse.code # MEDIA_BUS_FMT_SENSOR_DATA \/ fse.index > 0
         THEN [d EXCEPT !.ret = 0 - EINVAL, !.out = fse]
         ELSE [d EXCEPT !.ret = 0,
                        !.out = WithSize(fse, ARDUCAM_64MP_EMBEDDED_LINE_WIDTH,
                                         ARDUCAM_64MP_NUM_EMBEDDED_LINES)]

\* faulty variant: the crop of the first catalog entry, whatever the mode
get_pad_crop_first(d, pad, which) == supported_modes[1].crop

\* __arducam_64mp_get_pad_crop
arducam_64mp_get_pad_crop(d, pad, which) ==
    IF which = "try"
    THEN d.sd_state.try_crop[pad]
    ELSE supported_modes[d.mode].crop

\* struct v4l2_subdev_selection
Selection(pad, which, target) ==
    [kind |-> "rect", pad |-> pad, which |-> which, target |-> target,
     r |-> Rect(0, 0, 0, 0)]

arducam_64mp_get_selection(d, sel) ==
    CASE sel.target = "CROP" ->
           [d EXCEPT !.ret = 0,
                     !.out = [sel EXCEPT !.r =
                                 arducam_64mp_get_pad_crop(d, sel.pad,
                                                           sel.which)]]
      [] sel.target = "NATIVE_SIZE" ->
           [d EXCEPT !.ret = 0,
                     !.out = [sel EXCEPT !.r =
                                 Rect(0, 0, ARDUCAM_64MP_NATIVE_WIDTH,
                                      ARDUCAM_64MP_NATIVE_HEIGHT)]]
      [] sel.target \in { "CROP_DEFAULT", "CROP_BOUNDS" } ->
           [d EXCEPT !.ret = 0,
                     !.out = [sel EXCEPT !.r =
                                 Rect(ARDUCAM_64MP_PIXEL_ARRAY_LEFT,
                                      ARDUCAM_64MP_PIXEL_ARRAY_TOP,
                                      ARDUCAM_64MP_PIXEL_ARRAY_WIDTH,
                                      ARDUCAM_64MP_PIXEL_ARRAY_HEIGHT)]]
      [] OTHER -> [d EXCEPT !.ret = 0 - EINVAL, !.out = sel]

(***************************************************************************)
(* Power.  d.pwr is what the platform does at this power-up: "ok",         *)
(* "regulator" (regulator_bulk_enable fails) or "clock"                    *)
(* (clk_prepare_enable fails); d.pon records how the call ended and        *)
(* d.plog the calls into the regulator, clock and GPIO frameworks that     *)
(* the running entry point made, in order.                                 *)
(***************************************************************************)
\* a call into the regulator, clock or GPIO framework and its result
PCall(f, r) == [call |-> f, ret |-> r]

regulator_bulk_enable(d) ==
    IF d.pwr = "regulator"
    THEN [d EXCEPT !.plog = Append(@, PCall("regulator_bulk_enable", 0 - EIO)),
                   !.ret = 0 - EIO]
    ELSE [d EXCEPT !.plog = Append(@, PCall("regulator_bulk_enable", 0)),
                   !.supplies = TRUE, !.ret = 0]

regulator_bulk_disable(d) ==
    [d EXCEPT !.plog = Append(@, PCall("regulator_bulk_disable", 0)),
              !.supplies = FALSE]

clk_prepare_enable(d) ==
    IF d.pwr = "clock"
    THEN [d EXCEPT !.plog = Append(@, PCall("clk_prepare_enable", 0 - EIO)),
                   !.ret = 0 - EIO]
    ELSE [d EXCEPT !.plog = Append(@, PCall("clk_prepare_enable", 0)),
                   !.xclk = TRUE, !.ret = 0]

clk_disable_unprepare(d) ==
    [d EXCEPT !.plog = Append(@, PCall("clk_disable_unprepare", 0)),
              !.xclk = FALSE]

\* driving the reset line low holds the device in reset: it loses its
\* register contents
gpiod_set_value_cansleep(d, v) ==
    [d EXCEPT !.plog = Append(@, PCall("gpiod_set_value_cansleep", v)),
              !.reset_gpio = v,
              !.hw = IF v = 0 THEN [a \in DOMAIN d.hw |-> 0] ELSE @]

usleep_range(d) ==
    [d EXCEPT !.plog = Append(@, PCall("usleep_range", 0))]

\* faulty variant: a clock that fails to start leaves the rails enabled
power_on_no_rollback(d) ==
    Then(regulator_bulk_enable(d),
         LAMBDA r :
           IF r.ret # 0 THEN [r EXCEPT !.pon = "failed"]
           ELSE Then(clk_prepare_enable(r),
                     LAMBDA c :
                       IF c.ret # 0
                       THEN [c EXCEPT !.pon = "failed"]
                       ELSE [usleep_range(gpiod_set_value_cansleep(c, 1))
                             EXCEPT !.pon = "ok", !.ret = 0]))

arducam_64mp_power_on(d) ==
    Then(regulator_bulk_enable(d),
         LAMBDA r :
           IF r.ret # 0 THEN [r EXCEPT !.pon = "failed"]
           ELSE Then(clk_prepare_enable(r),
                     LAMBDA c :
                       IF c.ret # 0
                       THEN [regulator_bulk_disable(c)
                             EXCEPT !.pon = "failed", !.ret = c.ret]
                       ELSE [usleep_range(gpiod_set_value_cansleep(c, 1))
                             EXCEPT !.pon = "ok", !.ret = 0]))

\* faulty variant: forgets to invalidate the common registers
power_off_keeps_flag(d) ==
    [clk_disable_unprepare(
         regulator_bulk_disable(gpiod_set_value_cansleep(d, 0)))
     EXCEPT !.ret = 0]

\* The device loses its register contents while it is held in reset.
arducam_64mp_power_off(d) ==
    [clk_disable_unprepare(
         regulator_bulk_disable(gpiod_set_value_cansleep(d, 0)))
     EXCEPT !.common_regs_written = FALSE, !.ret = 0]

\* pm_runtime_get_sync: take a reference and resume the device if needed
pm_runtime_get_sync(d) ==
    IF d.rpm_active
    THEN [d EXCEPT !.usage_count = @ + 1, !.ret = 1]
    ELSE Then(arducam_64mp_power_on([d EXCEPT !.usage_count = @ + 1]),
              LAMBDA p : IF p.ret # 0 THEN p
                         ELSE [p EXCEPT !.rpm_active = TRUE, !.ret = 0])

(***************************************************************************)
(* Streaming.                                                              *)
(***************************************************************************)
\* faulty variant: marks the common registers written before writing them
start_common_flag_first(d) ==
    IF ~d.common_regs_written
    THEN arducam_64mp_write_regs([d EXCEPT !.stage = "common",
                                           !.common_regs_written = TRUE],
                                 mode_common_regs, 1)
    ELSE [d EXCEPT !.ret = 0]

\* the common-register step of arducam_64mp_start_streaming
start_common(d) ==
    IF ~d.common_regs_written
    THEN Then(arducam_64mp_write_regs([d EXCEPT !.stage = "common"],
                                      mode_common_regs, 1),
              LAMBDA w : IF w.ret # 0 THEN w
                         ELSE [w EXCEPT !.common_regs_written = TRUE])
    ELSE [d EXCEPT !.ret = 0]

\* faulty variant: programs the mode before the common registers
start_streaming_mode_first(d) ==
    LET m == arducam_64mp_write_regs([d EXCEPT !.stage = "mode"],
                                     supported_modes[d.mode].reg_list, 1)
    IN  IF m.ret # 0 THEN m
        ELSE
          LET c == start_common(m)
          IN  IF c.ret # 0 THEN c
              ELSE
                LET h == v4l2_ctrl_handler_setup(c, 1)
                IN  IF h.ret # 0 THEN h
                    ELSE arducam_64mp_write_reg(
                            [h EXCEPT !.stage = "select"],
                            ARDUCAM_64MP_REG_MODE_SELECT,
                            ARDUCAM_64MP_REG_VALUE_08BIT,
                            ARDUCAM_64MP_MODE_STREAMING)

\* arducam_64mp_start_streaming up to the end of the mode's register list
start_regs(d) ==
    Then(start_common(d), LAMBDA c :
      IF c.ret # 0 THEN c
      ELSE arducam_64mp_write_regs([c EXCEPT !.stage = "mode"],
                                   supported_modes[c.mode].reg_list, 1))

\* the control replay of arducam_64mp_start_streaming
start_ctrls(d) == v4l2_ctrl_handler_setup(d, 1)

\* the mode-select write that ends arducam_64mp_start_streaming
start_select(d) ==
    arducam_64mp_write_reg([d EXCEPT !.stage = "select"],
                           ARDUCAM_64MP_REG_MODE_SELECT,
                           ARDUCAM_64MP_REG_VALUE_08BIT,
                           ARDUCAM_64MP_MODE_STREAMING)

arducam_64mp_start_streaming(d) ==
    Then(start_regs(d), LAMBDA m :
      IF m.ret # 0 THEN m
      ELSE Then(start_ctrls(m), LAMBDA h :
             IF h.ret # 0 THEN h
             ELSE start_select(h)))

arducam_64mp_stop_streaming(d) ==
    LET w == arducam_64mp_write_reg([d EXCEPT !.stage = "standby"],
                                    ARDUCAM_64MP_REG_MODE_SELECT,
                                    ARDUCAM_64MP_REG_VALUE_08BIT,
                                    ARDUCAM_64MP_MODE_STANDBY)
    IN  [w EXCEPT !.ret = d.ret]

\* the tail of arducam_64mp_set_stream after a successful start or a stop
set_stream_done(d, enable, ret) ==
    [v4l2_ctrl_grab(v4l2_ctrl_grab([d EXCEPT !.streaming = enable],
                                   "vflip", enable),
                    "hflip", enable)
     EXCEPT !.ret = ret]

\* faulty variant: no check of the present streaming state
set_stream_unguarded(d, enable) ==
    IF enable
    THEN LET g == pm_runtime_get_sync(d)
         IN  IF g.ret < 0
             THEN pm_runtime_put_noidle(g)
             ELSE LET s == arducam_64mp_start_streaming(g)
                  IN  IF s.ret # 0
                      THEN pm_runtime_put(s)
                      ELSE set_stream_done(s, enable, s.ret)
    ELSE set_stream_done(
            pm_runtime_put(arducam_64mp_stop_streaming(d)), enable, 0)

\* faulty variant: a failed standby write aborts the stop
set_stream_stop_checked(d, enable) ==
    IF d.streaming = enable
    THEN [d EXCEPT !.ret = 0]
    ELSE IF enable
         THEN LET g == pm_runtime_get_sync(d)
              IN  IF g.ret < 0
                  THEN pm_runtime_put_noidle(g)
                  ELSE LET s == arducam_64mp_start_streaming(g)
                       IN  IF s.ret # 0
                           THEN pm_runtime_put(s)
                           ELSE set_stream_done(s, enable, s.ret)
         ELSE LET w == arducam_64mp_write_reg([d EXCEPT !.stage = "standby"],
                                              ARDUCAM_64MP_REG_MODE_SELECT,
                                              ARDUCAM_64MP_REG_VALUE_08BIT,
                                              ARDUCAM_64MP_MODE_STANDBY)
              IN  IF w.ret # 0 THEN w
                  ELSE set_stream_done(pm_runtime_put(w), enable, 0)

arducam_64mp_set_stream(d, enable) ==
    IF d.streaming = enable
    THEN [d EXCEPT !.ret = 0]
    ELSE IF enable
         THEN Then(pm_runtime_get_sync(d), LAMBDA g :
                IF g.ret < 0
                THEN pm_runtime_put_noidle(g)
                ELSE Then(arducam_64mp_start_streaming(g), LAMBDA s :
                       IF s.ret # 0
                       THEN pm_runtime_put(s)
                       ELSE set_stream_done(s, enable, s.ret)))
         ELSE set_stream_done(
                 pm_runtime_put(arducam_64mp_stop_streaming(d)), enable, 0)

\* faulty variant: suspend forgets that the sensor was streaming
suspend_clears_streaming(d) ==
    IF d.streaming
    THEN [arducam_64mp_stop_streaming(d) EXCEPT !.ret = 0,
                                                !.streaming = FALSE]
    ELSE [d EXCEPT !.ret = 0]

arducam_64mp_suspend(d) ==
    IF d.streaming
    THEN [arducam_64mp_stop_streaming(d) EXCEPT !.ret = 0]
    ELSE [d EXCEPT !.ret = 0]

\* faulty variant: a failed restart leaves the streaming flag set
resume_keeps_streaming(d) ==
    IF d.streaming
    THEN LET s == arducam_64mp_start_streaming(d)
         IN  IF s.ret # 0
             THEN arducam_64mp_stop_streaming(s)
             ELSE [s EXCEPT !.ret = 0]
    ELSE [d EXCEPT !.ret = 0]

arducam_64mp_resume(d) ==
    IF d.streaming
    THEN Then(arducam_64mp_start_streaming(d), LAMBDA s :
           IF s.ret # 0
           THEN [arducam_64mp_stop_streaming(s) EXCEPT !.streaming = FALSE]
           ELSE [s EXCEPT !.ret = 0])
    ELSE [d EXCEPT !.ret = 0]

(***************************************************************************)
(* User-level control write (VIDIOC_S_EXT_CTRLS): a grabbed control is     *)
(* refused before anything is touched.                                     *)
(***************************************************************************)
v4l2_s_ctrl(d, id, v) ==
    IF d.ctrls[id].grabbed
    THEN [d EXCEPT !.ret = 0 - EBUSY]
    ELSE v4l2_set_ctrl(d, id, v)

(***************************************************************************)
(* State.                                                                  *)
(***************************************************************************)
VARIABLES
    mode,                 \* arducam_64mp->mode, as an index of supported_modes
    fmt_code,             \* arducam_64mp->fmt_code
    streaming,            \* arducam_64mp->streaming
    common_regs_written,  \* arducam_64mp->common_regs_written
    long_exp_shift,       \* arducam_64mp->long_exp_shift
    ctrls,                \* the controls of arducam_64mp->ctrl_handler
    usage_count,          \* runtime-PM usage count of the device
    rpm_active,           \* runtime-PM status is RPM_ACTIVE
    supplies,             \* the regulators are enabled
    xclk,                 \* the input clock is enabled
    reset_gpio,           \* level driven on the reset line
    hw,                   \* contents of the followed device registers
    suspended,            \* the system is between suspend and resume
    wlog,                 \* register writes issued by the last entry point
    ret,                  \* return value of the last entry point
    op,                   \* the last entry point
    pon,                  \* outcome of power_on in the last entry point
    plog,                 \* platform calls made by the last entry point
    req,                  \* size the last set_pad_format was asked for
    out,                  \* the caller's structure after the last entry point
    sd_state,             \* try formats and try crops of the open file handle
    mutex,                \* owner of arducam_64mp->mutex, "none" when free
    pc,                   \* where each thread is within an entry point
    loc                   \* the call each thread is running and its locals

vars == << mode, fmt_code, streaming, common_regs_written, long_exp_shift,
           ctrls, usage_count, rpm_active, supplies, xclk, reset_gpio, hw,
           suspended, wlog, ret, op, pon, plog, req, out, sd_state, mutex,
           pc, loc >>

\* two callers of the subdevice and the thread of the system sleep callbacks
Callers == { "t1", "t2" }
Threads == Callers \cup { "pm" }

\* a call in progress: entry point f, the control id and the arguments x, y
Call(f, id, x, y) == [f |-> f, id |-> id, x |-> x, y |-> y]
NoLoc == Call("none", "none", 0, 0)

\* The driver structure at the start of an entry point, with the bus and
\* platform behaviour this run meets.
Drv(bus, pwr) ==
    [mode |-> mode, fmt_code |-> fmt_code, streaming |-> streaming,
     common_regs_written |-> common_regs_written,
     long_exp_shift |-> long_exp_shift, ctrls |-> ctrls,
     usage_count |-> usage_count, rpm_active |-> rpm_active,
     supplies |-> supplies, xclk |-> xclk, reset_gpio |-> reset_gpio,
     hw |-> hw, wlog |-> << >>, ret |-> 0, stage |-> "idle",
     pon |-> "none", plog |-> << >>, req |-> req, out |-> NoOut,
     sd_state |-> sd_state,
     bus |-> bus, pwr |-> pwr]

\* the fields of d and the outcome of entry point name become the state
Store(d, name) ==
    /\ mode' = d.mode
    /\ fmt_code' = d.fmt_code
    /\ streaming' = d.streaming
    /\ common_regs_written' = d.common_regs_written
    /\ long_exp_shift' = d.long_exp_shift
    /\ ctrls' = d.ctrls
    /\ usage_count' = d.usage_count
    /\ rpm_active' = d.rpm_active
    /\ supplies' = d.supplies
    /\ xclk' = d.xclk
    /\ reset_gpio' = d.reset_gpio
    /\ hw' = d.hw
    /\ wlog' = d.wlog
    /\ ret' = d.ret
    /\ op' = name
    /\ pon' = d.pon
    /\ plog' = d.plog
    /\ req' = d.req
    /\ out' = d.out
    /\ sd_state' = d.sd_state

\* an entry point that ran from its first statement to its return, the
\* device mutex free before and after
Commit(d, name) ==
    /\ Store(d, name)
    /\ UNCHANGED << mutex, pc, loc >>

(***************************************************************************)
(* Inputs of the entry points.                                             *)
(***************************************************************************)
NoFault == [first |-> 0, dead |-> FALSE]

\* The bus fails for the first time at write i of the run (never for
\* i = 0) and then either works again or stays dead.
Fault(i, dead) == [first |-> i, dead |-> dead]

\* Number of writes of a run of an entry point
Writes(d) == Len(d.wlog)

\* The outcomes of a run whose write i fails: r with the bus working again
\* after the failure, rdead with the bus dead from then on.  The two runs
\* differ only when the entry point goes on writing after the failure.
Outcomes(i, r, rdead) ==
    IF i > 0 /\ Writes(r) > i THEN { r, rdead } ELSE { r }

PowerOutcomes == { "ok", "regulator", "clock" }

\* Values a user writes to each control; the framework clamps them, so
\* these are the smallest and the largest vblank and the largest exposure.
CtrlInputs ==
    [id \in CtrlIds |->
        CASE id = "vblank" -> { 0, 9000000 }
          [] id = "exposure" -> { 9000000 }
          [] OTHER -> {}]

\* Sizes a user requests on the image pad.
SizeInputs == { << 1280, 720 >> }

(***************************************************************************)
(* Initial state: the driver after arducam_64mp_probe.                     *)
(***************************************************************************)
\* the controls as arducam_64mp_init_controls creates them
InitialCtrls ==
    [id \in CtrlIds |->
        CASE id = "vblank" -> Ctrl(0, 65535, 0, FALSE)
          [] id = "hblank" -> Ctrl(0, 65535, 0, TRUE)
          [] id = "exposure" ->
               Ctrl(ARDUCAM_64MP_EXPOSURE_MIN, ARDUCAM_64MP_EXPOSURE_MAX,
                    ARDUCAM_64MP_EXPOSURE_DEFAULT, FALSE)
          [] id = "analogue_gain" ->
               Ctrl(ARDUCAM_64MP_ANA_GAIN_MIN, ARDUCAM_64MP_ANA_GAIN_MAX,
                    ARDUCAM_64MP_ANA_GAIN_DEFAULT, FALSE)
          [] id = "digital_gain" ->
               Ctrl(ARDUCAM_64MP_DGTL_GAIN_MIN, ARDUCAM_64MP_DGTL_GAIN_MAX,
                    ARDUCAM_64MP_DGTL_GAIN_DEFAULT, FALSE)
          [] id \in {"hflip", "vflip"} -> Ctrl(0, 1, 0, FALSE)
          [] id = "test_pattern" -> Ctrl(0, 4, 0, FALSE)
          [] OTHER ->
               Ctrl(ARDUCAM_64MP_TEST_PATTERN_COLOUR_MIN,
                    ARDUCAM_64MP_TEST_PATTERN_COLOUR_MAX,
                    ARDUCAM_64MP_TEST_PATTERN_COLOUR_MAX, FALSE)]

\* arducam_64mp_probe: mode 0, device runtime-suspended, controls initialised
arducam_64mp_probe ==
    arducam_64mp_set_framing_limits(
      [mode |-> 1, fmt_code |-> codes[1], streaming |-> FALSE,
       common_regs_written |-> FALSE, long_exp_shift |-> 0,
       ctrls |-> InitialCtrls, usage_count |-> 0, rpm_active |-> FALSE,
       supplies |-> FALSE, xclk |-> FALSE, reset_gpio |-> 0, hw |-> HwReset,
       wlog |-> << >>, ret |-> 0, stage |-> "idle", pon |-> "none",
       plog |-> << >>, req |-> NoReq, out |-> NoOut, sd_state |-> ZeroState,
       bus |-> NoFault, pwr |-> "ok"])

\* the driver after probe and the arducam_64mp_open of the file handle
\* through which the subdevice is used
Opened == arducam_64mp_open(arducam_64mp_probe)

Init ==
    LET d == Opened
    IN  /\ mode = d.mode
        /\ fmt_code = d.fmt_code
        /\ streaming = d.streaming
        /\ common_regs_written = d.common_regs_written
        /\ long_exp_shift = d.long_exp_shift
        /\ ctrls = d.ctrls
        /\ usage_count = d.usage_count
        /\ rpm_active = d.rpm_active
        /\ supplies = d.supplies
        /\ xclk = d.xclk
        /\ reset_gpio = d.reset_gpio
        /\ hw = d.hw
        /\ suspended = FALSE
        /\ wlog = << >>
        /\ ret = 0
        /\ op = "probe"
        /\ pon = "none"
        /\ plog = << >>
        /\ req = NoReq
        /\ out = NoOut
        /\ sd_state = d.sd_state
        /\ mutex = "none"
        /\ pc = [t \in Threads |-> "idle"]
        /\ loc = [t \in Threads |-> NoLoc]

(***************************************************************************)
(* Actions: one per entry point.                                           *)
(***************************************************************************)
\* VIDIOC s_stream
SetStream ==
    \E enable \in BOOLEAN,
       pwr \in IF rpm_active THEN { "ok" } ELSE PowerOutcomes :
      \E i \in 0..Writes(arducam_64mp_set_stream(Drv(NoFault, pwr), enable)) :
        \E r \in Outcomes(i,
               arducam_64mp_set_stream(Drv(Fault(i, FALSE), pwr), enable),
               arducam_64mp_set_stream(Drv(Fault(i, TRUE), pwr), enable)) :
          /\ ~suspended
          /\ enable => usage_count < MaxUsage
          /\ Commit(r, IF enable THEN "set_stream_on" ELSE "set_stream_off")
          /\ UNCHANGED suspended

\* a user writes a control
SetCtrl ==
    \E id \in CtrlIds :
      \E v \in CtrlInputs[id] :
        \E i \in 0..Writes(v4l2_s_ctrl(Drv(NoFault, "ok"), id, v)) :
          \E r \in Outcomes(i, v4l2_s_ctrl(Drv(Fault(i, FALSE), "ok"), id, v),
                               v4l2_s_ctrl(Drv(Fault(i, TRUE), "ok"), id, v)) :
            /\ ~suspended
            /\ ~ctrls[id].read_only
            /\ Commit(r, "s_ctrl")
            /\ UNCHANGED suspended

\* a user sets the active format of the image pad (on a working bus)
SetPadFormat ==
    \E sz \in SizeInputs :
        \E r \in { arducam_64mp_set_pad_format(
                      Drv(NoFault, "ok"),
                      SubdevFormat(IMAGE_PAD, "active", sz[1], sz[2],
                                   "none")) } :
          /\ ~suspended
          /\ Commit(r, "set_fmt")
          /\ UNCHANGED suspended

\* system sleep: the suspend callback
Suspend ==
    \E i \in 0..Writes(arducam_64mp_suspend(Drv(NoFault, "ok"))) :
        \E r \in { arducam_64mp_suspend(Drv(Fault(i, FALSE), "ok")) } :
          /\ ~suspended
          /\ Commit(r, "suspend")
          /\ suspended' = TRUE

\* system sleep: the resume callback
Resume ==
    \E i \in 0..Writes(arducam_64mp_resume(Drv(NoFault, "ok"))) :
        \E r \in Outcomes(i, arducam_64mp_resume(Drv(Fault(i, FALSE), "ok")),
                             arducam_64mp_resume(Drv(Fault(i, TRUE), "ok"))) :
          /\ suspended
          /\ Commit(r, "resume")
          /\ suspended' = FALSE

\* runtime PM suspends the idle device: the runtime_suspend callback
RuntimeSuspend ==
    \E r \in { [arducam_64mp_power_off(Drv(NoFault, "ok"))
                EXCEPT !.rpm_active = FALSE] } :
      /\ ~suspended
      /\ rpm_active
      /\ usage_count = 0
      /\ Commit(r, "power_off")
      /\ UNCHANGED suspended

Next ==
    \/ SetStream
    \/ SetCtrl
    \/ SetPadFormat
    \/ Suspend
    \/ Resume
    \/ RuntimeSuspend

Spec == Init /\ [][Next]_vars

(***************************************************************************)
(* The frame-length computation on its own: a sensor streaming in any      *)
(* mode of the catalog, and v_blank values that put the raw frame length   *)
(* on both sides of every shift boundary.                                  *)
(***************************************************************************)
\* the state with the fields of d, after entry point name
Holds(d, name) ==
    /\ mode = d.mode
    /\ fmt_code = d.fmt_code
    /\ streaming = d.streaming
    /\ common_regs_written = d.common_regs_written
    /\ long_exp_shift = d.long_exp_shift
    /\ ctrls = d.ctrls
    /\ usage_count = d.usage_count
    /\ rpm_active = d.rpm_active
    /\ supplies = d.supplies
    /\ xclk = d.xclk
    /\ reset_gpio = d.reset_gpio
    /\ hw = d.hw
    /\ suspended = FALSE
    /\ wlog = d.wlog
    /\ ret = d.ret
    /\ op = name
    /\ pon = d.pon
    /\ plog = d.plog
    /\ req = d.req
    /\ out = d.out
    /\ sd_state = d.sd_state
    /\ mutex = "none"
    /\ pc = [t \in Threads |-> "idle"]
    /\ loc = [t \in Threads |-> NoLoc]

\* the driver after probe, set_format to mode m and a successful start
StreamingFrom(d, m) ==
    arducam_64mp_set_stream(
        [arducam_64mp_set_pad_format(
            d,
            SubdevFormat(IMAGE_PAD, "active", supported_modes[m].width,
                         supported_modes[m].height, "none"))
         EXCEPT !.wlog = << >>],
        TRUE)

StreamingIn(m) == StreamingFrom(Opened, m)

\* raw frame lengths (v_blank + height) around the shift boundaries
FrameLengthInputs ==
    { 65535, 65536, 131070, 131071, 131072, 200000, 262140, 262141,
      524280, 524281, 1048560, 1048561, 4194240, 4194241, 8388479, 8388480 }

InitFrame == \E m \in 1..Len(supported_modes) : Holds(StreamingIn(m), "start")

\* the V4L2_CID_VBLANK case of arducam_64mp_set_ctrl on the sensor in use
ApplyVblank ==
    \E raw \in FrameLengthInputs, i \in 0..2 :
      \E r \in { arducam_64mp_apply_ctrl(
                    [Drv(Fault(i, FALSE), "ok")
                     EXCEPT !.stage = "ctrl",
                            !.ctrls["vblank"].val
                               = raw - supported_modes[mode].height],
                    "vblank") } :
        /\ Commit(r, "set_frame_length")
        /\ UNCHANGED suspended

NextFrame == ApplyVblank

SpecFrame == InitFrame /\ [][NextFrame]_vars

(***************************************************************************)
(* Format negotiation: the format, enumeration and selection entry points  *)
(* on the image pad of a sensor that is not streaming, with flip edits in  *)
(* between.                                                                *)
(***************************************************************************)
\* the catalog sizes
CatalogSizes ==
    { << supported_modes[i].width, supported_modes[i].height >> :
         i \in 1..Len(supported_modes) }

\* Requested sizes: every catalog size, sizes at equal distance from two
\* entries, a size one step off such a tie, a size whose nearest width and
\* nearest height belong to different entries, and the extremes.
FmtSizeInputs ==
    CatalogSizes \cup
    { << 1600, 900 >>, << 1601, 900 >>, << 8576, 6472 >>,
      << 3840, 3472 >>, << 0, 0 >>, << 65535, 65535 >> }

SelectionTargets ==
    { "CROP", "NATIVE_SIZE", "CROP_DEFAULT", "CROP_BOUNDS", "COMPOSE" }

\* VIDIOC_SUBDEV_S_FMT, active format of the image pad
FmtSetPadFormat ==
    \E sz \in FmtSizeInputs :
      \E r \in { arducam_64mp_set_pad_format(
                    Drv(NoFault, "ok"),
                    SubdevFormat(IMAGE_PAD, "active", sz[1], sz[2],
                                 "none")) } :
        /\ Commit(r, "set_fmt")
        /\ UNCHANGED suspended

\* VIDIOC_SUBDEV_G_FMT, active format of the image pad
GetPadFormat ==
    \E r \in { arducam_64mp_get_pad_format(
                  Drv(NoFault, "ok"),
                  SubdevFormat(IMAGE_PAD, "active", 0, 0, "none")) } :
      /\ Commit(r, "get_fmt")
      /\ UNCHANGED suspended

\* VIDIOC_SUBDEV_ENUM_MBUS_CODE on the image pad
EnumMbusCode ==
    \E index \in 0..1 :
      \E r \in { arducam_64mp_enum_mbus_code(
                    Drv(NoFault, "ok"),
                    MbusCodeEnum(IMAGE_PAD, index, "none")) } :
        /\ Commit(r, "enum_mbus_code")
        /\ UNCHANGED suspended

\* VIDIOC_SUBDEV_ENUM_FRAME_SIZE on the image pad
EnumFrameSize ==
    \E index \in { 0, Len(supported_modes) - 1, Len(supported_modes) },
       code \in { codes[1], codes[4] } :
      \E r \in { arducam_64mp_enum_frame_size(
                    Drv(NoFault, "ok"),
                    FrameSizeEnum(IMAGE_PAD, index, code)) } :
        /\ Commit(r, "enum_frame_size")
        /\ UNCHANGED suspended

\* VIDIOC_SUBDEV_G_SELECTION, active selection of the image pad
GetSelection ==
    \E target \in SelectionTargets :
      \E r \in { arducam_64mp_get_selection(
                    Drv(NoFault, "ok"),
                    Selection(IMAGE_PAD, "active", target)) } :
        /\ Commit(r, "get_selection")
        /\ UNCHANGED suspended

\* a user writes one of the flip controls
SetFlip ==
    \E id \in { "hflip", "vflip" }, v \in 0..1 :
      \E r \in { v4l2_s_ctrl(Drv(NoFault, "ok"), id, v) } :
        /\ Commit(r, "s_ctrl")
        /\ UNCHANGED suspended

NextFmt ==
    \/ FmtSetPadFormat
    \/ GetPadFormat
    \/ EnumMbusCode
    \/ EnumFrameSize
    \/ GetSelection
    \/ SetFlip

SpecFmt == Init /\ [][NextFmt]_vars

(***************************************************************************)
(* Try formats, the metadata pad and arguments out of range: the pad       *)
(* operations with every pad number up to NUM_PADS and both kinds of       *)
(* format, on a sensor that is idle or streaming.                          *)
(***************************************************************************)
Pads == 0..NUM_PADS

Whence == { "try", "active" }

\* requested geometries: a catalog size and one far from the metadata line
TrySizeInputs == { << 1920, 1080 >>, << 100, 2 >> }

InitTry == Init \/ Holds(StreamingIn(1), "start")

TrySetPadFormat ==
    \E pad \in Pads, which \in Whence, sz \in TrySizeInputs :
      \E r \in { arducam_64mp_set_pad_format(
                    Drv(NoFault, "ok"),
                    SubdevFormat(pad, which, sz[1], sz[2], codes[4])) } :
        /\ Commit(r, "set_fmt")
        /\ UNCHANGED suspended

TryGetPadFormat ==
    \E pad \in Pads, which \in Whence :
      \E r \in { arducam_64mp_get_pad_format(
                    Drv(NoFault, "ok"),
                    SubdevFormat(pad, which, 0, 0, "none")) } :
        /\ Commit(r, "get_fmt")
        /\ UNCHANGED suspended

TryEnumMbusCode ==
    \E pad \in Pads, index \in 0..1 :
      \E r \in { arducam_64mp_enum_mbus_code(
                    Drv(NoFault, "ok"), MbusCodeEnum(pad, index, "none")) } :
        /\ Commit(r, "enum_mbus_code")
        /\ UNCHANGED suspended

TryEnumFrameSize ==
    \E pad \in Pads,
       index \in { 0, Len(supported_modes) },
       code \in { codes[1], codes[2], MEDIA_BUS_FMT_SENSOR_DATA } :
      \E r \in { arducam_64mp_enum_frame_size(
                    Drv(NoFault, "ok"), FrameSizeEnum(pad, index, code)) } :
        /\ Commit(r, "enum_frame_size")
        /\ UNCHANGED suspended

TryGetSelection ==
    \E pad \in 0..(NUM_PADS - 1), which \in Whence,
       target \in SelectionTargets :
      \E r \in { arducam_64mp_get_selection(
                    Drv(NoFault, "ok"), Selection(pad, which, target)) } :
        /\ Commit(r, "get_selection")
        /\ UNCHANGED suspended

\* a user writes the h-flip control
TrySetFlip ==
    \E v \in 0..1 :
      \E r \in { v4l2_s_ctrl(Drv(NoFault, "ok"), "hflip", v) } :
        /\ Commit(r, "s_ctrl")
        /\ UNCHANGED suspended

NextTry ==
    \/ TrySetPadFormat
    \/ TryGetPadFormat
    \/ TryEnumMbusCode
    \/ TryEnumFrameSize
    \/ TryGetSelection
    \/ TrySetFlip

SpecTry == InitTry /\ [][NextTry]_vars

(***************************************************************************)
(* The register-list writer on its own: every list of at most MaxRegs      *)
(* entries, entries that repeat included, written to a powered device      *)
(* whose bus works, fails once at any position, or fails from any          *)
(* position on.                                                            *)
(***************************************************************************)
MaxRegs == 3

RegEntries == { Reg(256, 0), Reg(310, 24), Reg(834, 182) }

RegLists ==
    UNION { [1..n -> RegEntries] : n \in 0..MaxRegs }

\* the argument list of the last call of the writer
RegList(regs) == [kind |-> "regs", regs |-> regs]

InitRegs == Holds([StreamingIn(1) EXCEPT !.wlog = << >>], "start")

WriteRegs ==
    \E regs \in RegLists, i \in 0..MaxRegs, dead \in BOOLEAN :
       /\ i <= Len(regs)
       /\ (i = 0 => ~dead)
       /\ Commit([arducam_64mp_write_regs(
                      [Drv(Fault(i, dead), "ok") EXCEPT !.stage = "regs"],
                      regs, 1)
                  EXCEPT !.out = RegList(regs)],
                 "write_regs")
       /\ UNCHANGED suspended

NextRegs == WriteRegs

SpecRegs == InitRegs /\ [][NextRegs]_vars

(***************************************************************************)
(* Exposure and long exposure: a sensor streaming on a bus that works,     *)
(* whose exposure and long-exposure-shift registers are followed too, and  *)
(* edits of v_blank and of exposure that move the frame length across the  *)
(* first shift boundaries in both directions.                              *)
(***************************************************************************)
TimingRegs ==
    { ARDUCAM_64MP_REG_EXPOSURE, ARDUCAM_64MP_REG_EXPOSURE + 1,
      ARDUCAM_64MP_LONG_EXP_SHIFT_REG }

\* the device of d with the registers regs followed as well
Following(d, regs) == [d EXCEPT !.hw = [a \in DOMAIN d.hw \cup regs |-> 0]]

ExpModes == { 1, 6 }

\* raw frame lengths (v_blank + height) asked for
ExpFrameLengths == { 7000, 65535, 65536, 131071, 131072, 200000 }

ExpExposures == { 9, 1000, 60000, 9000000 }

InitExp ==
    \E m \in ExpModes :
       Holds(StreamingFrom(Following(Opened, TimingRegs), m), "start")

ExpSetVblank ==
    \E raw \in ExpFrameLengths :
      \E r \in { v4l2_s_ctrl(Drv(NoFault, "ok"), "vblank",
                             raw - supported_modes[mode].height) } :
        /\ Commit(r, "s_ctrl_vblank")
        /\ UNCHANGED suspended

ExpSetExposure ==
    \E v \in ExpExposures :
      \E r \in { v4l2_s_ctrl(Drv(NoFault, "ok"), "exposure", v) } :
        /\ Commit(r, "s_ctrl_exposure")
        /\ UNCHANGED suspended

NextExp == ExpSetVblank \/ ExpSetExposure

SpecExp == InitExp /\ [][NextExp]_vars

(***************************************************************************)
(* Frame timing across mode changes: the tallest and the shortest mode,    *)
(* the extreme values of v_blank and exposure, stream starts and stops,    *)
(* and a bus that works or is dead for a whole call.                       *)
(***************************************************************************)
TimSizes == { << 9152, 6944 >>, << 1280, 720 >> }

TimBus == { NoFault, Fault(1, TRUE) }

TimSetStream ==
    \E enable \in BOOLEAN :
      \E r \in { arducam_64mp_set_stream(Drv(NoFault, "ok"), enable) } :
        /\ enable => usage_count < MaxUsage
        /\ Commit(r, IF enable THEN "set_stream_on" ELSE "set_stream_off")
        /\ UNCHANGED suspended

TimSetPadFormat ==
    \E sz \in TimSizes, bus \in TimBus :
      \E r \in { arducam_64mp_set_pad_format(
                    Drv(bus, "ok"),
                    SubdevFormat(IMAGE_PAD, "active", sz[1], sz[2],
                                 "none")) } :
        /\ Commit(r, "set_fmt")
        /\ UNCHANGED suspended

TimSetCtrl ==
    \E id \in { "vblank", "exposure" }, bus \in TimBus :
      \E v \in CtrlInputs[id] :
        \E r \in { v4l2_s_ctrl(Drv(bus, "ok"), id, v) } :
          /\ Commit(r, "s_ctrl")
          /\ UNCHANGED suspended

NextTim == TimSetStream \/ TimSetPadFormat \/ TimSetCtrl

SpecTim == Init /\ [][NextTim]_vars

(***************************************************************************)
(* The frame-length derivation on its own: every mode of the catalog with  *)
(* its default frame interval, with intervals that bring the quotient      *)
(* below the height of the mode and above 16 bits, and with the first      *)
(* denominator whose product with the line length needs more than 32       *)
(* bits.                                                                   *)
(***************************************************************************)
Fract(n, d) == [numerator |-> n, denominator |-> d]

\* the least denominator d with d * line_length_pix >= 2^32
WideDenominator(m) ==
    MulDivMod(65536, 65536, supported_modes[m].line_length_pix)[1] + 1

Intervals(m) ==
    { supported_modes[m].timeperframe_default, Fract(1, WideDenominator(m)) }
    \cup { Fract(n, d) : n \in { 1, 100, 1001, 10000 },
                         d \in { 1, 30, 1000, 12000 } }

\* the arguments and the result of the last derivation
FrameLength(m, tpf) ==
    [kind |-> "frame_length", mode |-> m, timeperframe |-> tpf,
     quotient |-> do_div_frame_length(supported_modes[m], tpf),
     value |-> arducam_64mp_get_frame_length(supported_modes[m], tpf)]

GetFrameLength ==
    \E m \in 1..Len(supported_modes) :
      \E tpf \in Intervals(m) :
        /\ Commit([Drv(NoFault, "ok") EXCEPT !.out = FrameLength(m, tpf)],
                  "get_frame_length")
        /\ UNCHANGED suspended

NextCat == GetFrameLength

SpecCat == Init /\ [][NextCat]_vars

(***************************************************************************)
(* Concurrent threads.  Callers run entry points of the subdevice and the  *)
(* thread "pm" runs the system sleep callbacks, one statement group at a   *)
(* time.  An entry point whose code takes arducam_64mp->mutex (for the     *)
(* controls, the handler lock set up in arducam_64mp_init_controls, which  *)
(* is the same mutex) waits for it in Enter and gives it back in Leave;    *)
(* the other entry points run their steps whenever their thread is         *)
(* scheduled.  The bus works, except that a device without power answers   *)
(* no transfer.  SpecLock has two callers and no system sleep: "t1" runs    *)
(* any entry point, "t2" the ones that switch the stream and edit the      *)
(* flips.  SpecPm has one caller and the system sleep callbacks.           *)
(***************************************************************************)
\* everything but the lock and the threads
drvvars == << mode, fmt_code, streaming, common_regs_written, long_exp_shift,
              ctrls, usage_count, rpm_active, supplies, xclk, reset_gpio, hw,
              suspended, wlog, ret, op, pon, plog, req, out, sd_state >>

\* the calls of SpecLock whose entry point takes the mutex
LockCalls ==
    { Call("set_stream", "none", x, 0) : x \in 0..1 }
    \cup { Call("s_ctrl", id, v, 0) : id \in { "hflip", "vflip" }, v \in 0..1 }
    \cup { Call("set_fmt", "none", 1280, 720),
           Call("get_fmt", "none", 0, 0),
           Call("get_selection", "none", 0, 0),
           Call("open", "none", 0, 0) }

\* the calls of SpecLock that change what arducam_64mp_get_format_code
\* reads or the streaming state
WriterCalls == { c \in LockCalls : c.f \in { "set_stream", "s_ctrl" } }

\* the calls of SpecPm, all of which take the mutex
PmCalls ==
    { Call("set_stream", "none", x, 0) : x \in 0..1 }
    \cup { Call("s_ctrl", "vblank", 9000000, 0),
           Call("set_fmt", "none", 1280, 720) }

\* the body of the entry point of call c, between mutex_lock and
\* mutex_unlock
Run(d, c) ==
    CASE c.f = "set_stream" -> arducam_64mp_set_stream(d, c.x = 1)
      [] c.f = "s_ctrl" -> v4l2_s_ctrl(d, c.id, c.x)
      [] c.f = "set_fmt" ->
           arducam_64mp_set_pad_format(
              d, SubdevFormat(IMAGE_PAD, "active", c.x, c.y, "none"))
      [] c.f = "get_fmt" ->
           arducam_64mp_get_pad_format(
              d, SubdevFormat(IMAGE_PAD, "active", 0, 0, "none"))
      [] c.f = "open" -> arducam_64mp_open(d)
      [] OTHER ->
           arducam_64mp_get_selection(
              d, Selection(IMAGE_PAD, "active", "CROP"))

\* the bus as the device's power makes it
PowerBus == IF supplies /\ xclk THEN NoFault ELSE Fault(1, TRUE)

\* mutex_lock at the head of a locking entry point
Enter(t, calls) ==
    \E c \in calls :
      /\ pc[t] = "idle"
      /\ mutex = "none"
      /\ (c.f = "set_stream" /\ c.x = 1) => usage_count < MaxUsage
      /\ mutex' = t
      /\ pc' = [pc EXCEPT ![t] = "locked"]
      /\ loc' = [loc EXCEPT ![t] = c]
      /\ UNCHANGED drvvars

\* the locked body and mutex_unlock
Leave(t) ==
    \E r \in { Run(Drv(NoFault, "ok"), loc[t]) } :
      /\ pc[t] = "locked"
      /\ Store(r, loc[t].f)
      /\ mutex' = "none"
      /\ pc' = [pc EXCEPT ![t] = "idle"]
      /\ loc' = [loc EXCEPT ![t] = NoLoc]
      /\ UNCHANGED suspended

\* the entry points that call arducam_64mp_get_format_code without taking
\* the mutex
EnumCalls == { "enum_mbus_code", "enum_frame_size" }

\* the unlocked body of the entry point f
RunEnum(d, f) ==
    IF f = "enum_mbus_code"
    THEN arducam_64mp_enum_mbus_code(d, MbusCodeEnum(IMAGE_PAD, 0, "none"))
    ELSE arducam_64mp_enum_frame_size(d, FrameSizeEnum(IMAGE_PAD, 0,
                                                       codes[1]))

\* arducam_64mp_enum_mbus_code or arducam_64mp_enum_frame_size reaches
\* arducam_64mp_get_format_code and reads the first of the two flips (C
\* leaves the order of the two reads open)
EnumReadFirst(t) ==
    \E f \in EnumCalls, id \in { "vflip", "hflip" } :
      /\ pc[t] = "idle"
      /\ pc' = [pc EXCEPT ![t] = "enum"]
      /\ loc' = [loc EXCEPT ![t] = Call(f, id, ctrls[id].val, 0)]
      /\ UNCHANGED << drvvars, mutex >>

\* it reads the other flip and goes on to its return
EnumReadSecond(t) ==
    \E r \in { RunEnum([Drv(NoFault, "ok")
                        EXCEPT !.ctrls[loc[t].id].val = loc[t].x],
                       loc[t].f) } :
      /\ pc[t] = "enum"
      /\ Store([r EXCEPT !.ctrls = ctrls], loc[t].f)
      /\ pc' = [pc EXCEPT ![t] = "idle"]
      /\ loc' = [loc EXCEPT ![t] = NoLoc]
      /\ UNCHANGED << suspended, mutex >>

\* the PM core calls arducam_64mp_suspend or arducam_64mp_resume
PmEnter ==
    /\ pc["pm"] = "idle"
    /\ pc' = [pc EXCEPT !["pm"] = IF suspended THEN "resume" ELSE "suspend"]
    /\ UNCHANGED << drvvars, mutex, loc >>

\* arducam_64mp_suspend
PmSuspend ==
    \E r \in { arducam_64mp_suspend(Drv(PowerBus, "ok")) } :
      /\ pc["pm"] = "suspend"
      /\ Store(r, "suspend")
      /\ suspended' = TRUE
      /\ pc' = [pc EXCEPT !["pm"] = "idle"]
      /\ UNCHANGED << mutex, loc >>

\* arducam_64mp_resume: the test of the streaming flag
PmResumeCheck ==
    \E r \in { [Drv(NoFault, "ok") EXCEPT !.ret = 0] } :
      /\ pc["pm"] = "resume"
      /\ Store(r, "resume")
      /\ suspended' = ~streaming
      /\ pc' = [pc EXCEPT !["pm"] = IF streaming THEN "resume_regs"
                                                ELSE "idle"]
      /\ UNCHANGED << mutex, loc >>

\* arducam_64mp_resume inside arducam_64mp_start_streaming: the register
\* lists, then the control replay, then the mode-select write
PmResumeStep ==
    \E r \in { CASE pc["pm"] = "resume_regs" ->
                     start_regs(Drv(PowerBus, "ok"))
                 [] pc["pm"] = "resume_ctrls" ->
                     start_ctrls(Drv(PowerBus, "ok"))
                 [] OTHER -> start_select(Drv(PowerBus, "ok")) } :
      /\ pc["pm"] \in { "resume_regs", "resume_ctrls", "resume_select" }
      /\ Store(r, pc["pm"])
      /\ suspended' = (r.ret # 0 \/ pc["pm"] # "resume_select")
      /\ pc' = [pc EXCEPT !["pm"] =
                   CASE r.ret # 0 -> "resume_fail"
                     [] pc["pm"] = "resume_regs" -> "resume_ctrls"
                     [] pc["pm"] = "resume_ctrls" -> "resume_select"
                     [] OTHER -> "idle"]
      /\ UNCHANGED << mutex, loc >>

\* arducam_64mp_resume, label error
PmResumeFail ==
    \E r \in { [arducam_64mp_stop_streaming(
                    [Drv(PowerBus, "ok") EXCEPT !.ret = ret])
                 EXCEPT !.streaming = FALSE] } :
      /\ pc["pm"] = "resume_fail"
      /\ Store(r, "resume")
      /\ suspended' = FALSE
      /\ pc' = [pc EXCEPT !["pm"] = "idle"]
      /\ UNCHANGED << mutex, loc >>

\* runtime PM suspends the idle device: the runtime_suspend callback
PmRuntimeSuspend ==
    \E r \in { [arducam_64mp_power_off(Drv(NoFault, "ok"))
                EXCEPT !.rpm_active = FALSE] } :
      /\ rpm_active
      /\ usage_count = 0
      /\ Store(r, "power_off")
      /\ UNCHANGED << suspended, mutex, pc, loc >>

NextLock ==
    \/ Enter("t1", LockCalls)
    \/ Enter("t2", WriterCalls)
    \/ \E t \in Callers : Leave(t)
    \/ EnumReadFirst("t1")
    \/ EnumReadSecond("t1")

SpecLock == Init /\ [][NextLock]_vars

NextPm ==
    \/ Enter("t1", PmCalls)
    \/ Leave("t1")
    \/ PmEnter
    \/ PmSuspend
    \/ PmResumeCheck
    \/ PmResumeStep
    \/ PmResumeFail
    \/ PmRuntimeSuspend

SpecPm == Init /\ [][NextPm]_vars

(***************************************************************************)
(* The mutex statement by statement, with failures.  A caller invokes a    *)
(* locking entry point and waits at its mutex_lock; the holder runs the    *)
(* body, in which the power-up or a bus transfer may fail, and arrives at  *)
(* the statement the body leaves by; mutex_unlock there gives the mutex    *)
(* back and the entry point returns.                                       *)
(*                                                                         *)
(* Fairness: the holder of the mutex is a running thread and every wait in *)
(* a body is bounded (bus transfers time out, the sleeps are finite), so   *)
(* the body and the unlock are weakly fair; the kernel mutex hands over to *)
(* a waiter that keeps being passed over, so mutex_lock is strongly fair.  *)
(***************************************************************************)
FairCalls ==
    { Call("set_stream", "none", x, 0) : x \in 0..1 }
    \cup { Call("s_ctrl", "hflip", 1, 0),
           Call("set_fmt", "none", 1280, 720),
           Call("get_fmt", "none", 0, 0),
           Call("get_selection", "none", 0, 0),
           Call("open", "none", 0, 0) }

\* faulty variant: the error labels return without mutex_unlock
set_stream_exit_locked(d, c, r) ==
    CASE c.f # "set_stream" -> "unlock"
      [] d.streaming = (c.x = 1) -> "unlock_noop"
      [] r.ret # 0 -> "idle"
      [] OTHER -> "unlock"

\* the statement the body of call c leaves by, from the structure d it
\* started with and the structure r it left: the mutex_unlock of the no-op
\* branch of arducam_64mp_set_stream, the one under its label err_unlock
\* (reached directly or through err_rpm_put), or the one before the return
\* of the entry point
set_stream_exit(d, c, r) ==
    CASE c.f # "set_stream" -> "unlock"
      [] d.streaming = (c.x = 1) -> "unlock_noop"
      [] r.ret # 0 -> "err_unlock"
      [] OTHER -> "unlock"

UnlockPoints == { "unlock", "unlock_noop", "err_unlock" }

\* a caller enters a locking entry point and reaches its mutex_lock
Invoke(t, calls) ==
    \E c \in calls :
      /\ pc[t] = "idle"
      /\ (c.f = "set_stream" /\ c.x = 1) => usage_count < MaxUsage
      /\ pc' = [pc EXCEPT ![t] = "lock"]
      /\ loc' = [loc EXCEPT ![t] = c]
      /\ UNCHANGED << drvvars, mutex >>

\* mutex_lock returns
Lock(t) ==
    /\ pc[t] = "lock"
    /\ mutex = "none"
    /\ mutex' = t
    /\ pc' = [pc EXCEPT ![t] = "locked"]
    /\ UNCHANGED << drvvars, loc >>

\* the body between mutex_lock and the mutex_unlock it leaves by
Body(t) ==
    \E bus \in TimBus,
       pwr \in IF rpm_active THEN { "ok" } ELSE { "ok", "regulator" } :
      \E r \in { Run(Drv(bus, pwr), loc[t]) } :
        /\ pc[t] = "locked"
        /\ Store(r, loc[t].f)
        /\ pc' = [pc EXCEPT ![t] =
                     set_stream_exit(Drv(bus, pwr), loc[t], r)]
        /\ UNCHANGED << suspended, mutex, loc >>

\* mutex_unlock and the return of the entry point
Unlock(t) ==
    /\ pc[t] \in UnlockPoints
    /\ mutex' = "none"
    /\ pc' = [pc EXCEPT ![t] = "idle"]
    /\ loc' = [loc EXCEPT ![t] = NoLoc]
    /\ UNCHANGED drvvars

NextFair ==
    \/ Invoke("t1", FairCalls)
    \/ Invoke("t2", { c \in FairCalls : c.f = "set_stream" })
    \/ \E t \in Callers : Lock(t) \/ Body(t) \/ Unlock(t)

\* Body(t) as the program counter shows it.  Body(t) is the only step of
\* NextFair that takes pc[t] away from "locked" and it is enabled in every
\* state with pc[t] = "locked", so this action is enabled when Body(t) is
\* and a step of NextFair is a step of it when it is a step of Body(t).
BodyEnds(t) ==
    /\ pc[t] = "locked"
    /\ \E l \in UnlockPoints \cup { "idle" } : pc' = [pc EXCEPT ![t] = l]

SpecFair ==
    /\ Init
    /\ [][NextFair]_vars
    /\ \A t \in Callers :
         WF_pc(BodyEnds(t)) /\ WF_vars(Unlock(t)) /\ SF_vars(Lock(t))

(***************************************************************************)
(* Reading the write log.                                                  *)
(***************************************************************************)
StageRank(stage) ==
    CASE stage = "common" -> 1
      [] stage = "mode" -> 2
      [] stage = "ctrl" -> 3
      [] stage = "select" -> 4
      [] OTHER -> 5

\* the <<address, value>> entries a code site wrote, in order
StageRegs(lg, stage) ==
    LET T(e) == e.stage = stage
        sel  == SelectSeq(lg, T)
    IN  [i \in 1..Len(sel) |-> Reg(sel[i].reg, sel[i].val)]

HasStage(lg, stage) == \E i \in 1..Len(lg) : lg[i].stage = stage

StageFailed(lg, stage) == \E i \in 1..Len(lg) : lg[i].stage = stage /\ ~lg[i].ok

AnyFailed(lg) == \E i \in 1..Len(lg) : ~lg[i].ok

IsPrefix(s, t) == Len(s) <= Len(t) /\ s = SubSeq(t, 1, Len(s))

\* the mode-select write of the streaming value went through
SelectDone(lg) ==
    \E i \in 1..Len(lg) : lg[i].stage = "select" /\ lg[i].ok

\* entry points that run arducam_64mp_start_streaming
StartOps == { "set_stream_on", "resume" }

\* the writes a replay of the present control values issues, in order
ReplayRegs ==
    LET r == long_exp_loop(ctrls["vblank"].cur + supported_modes[mode].height,
                           0)
        orientation == ctrls["hflip"].cur + 2 * ctrls["vflip"].cur
    IN  << Reg(ARDUCAM_64MP_REG_FRAME_LENGTH, r[1]),
           Reg(ARDUCAM_64MP_LONG_EXP_SHIFT_REG, r[2]),
           Reg(ARDUCAM_64MP_REG_EXPOSURE,
               (ctrls["exposure"].cur \div (2 ^ r[2])) % 65536),
           Reg(ARDUCAM_64MP_REG_ANALOG_GAIN, ctrls["analogue_gain"].cur),
           Reg(ARDUCAM_64MP_REG_ORIENTATION, orientation),
           Reg(ARDUCAM_64MP_REG_ORIENTATION, orientation),
           Reg(ARDUCAM_64MP_REG_TEST_PATTERN,
               arducam_64mp_test_pattern_val[ctrls["test_pattern"].cur + 1]) >>

\* the control writes of lg are a replay of the present control values,
\* possibly after the exposure write by which the vblank replay clamps
\* an exposure that lies above its range
IsReplay(lg) ==
    LET c == StageRegs(lg, "ctrl")
    IN  \/ c = ReplayRegs
        \/ /\ Len(c) = Len(ReplayRegs) + 1
           /\ c[1].address = ARDUCAM_64MP_REG_EXPOSURE
           /\ Tail(c) = ReplayRegs

SelectStreaming ==
    << Reg(ARDUCAM_64MP_REG_MODE_SELECT, ARDUCAM_64MP_MODE_STREAMING) >>

SelectStandby ==
    << Reg(ARDUCAM_64MP_REG_MODE_SELECT, ARDUCAM_64MP_MODE_STANDBY) >>

Grabbed(id) == ctrls[id].grabbed

(***************************************************************************)
(* Properties of the streaming path.                                       *)
(***************************************************************************)

\* C1: a run of arducam_64mp_start_streaming issues its writes in the
\* order common block (exactly when common_regs_written was false), the
\* whole register list of the active mode, a replay of every current
\* control value, and last the streaming value to the mode-select
\* register; no step starts before the one before it is complete.
C1_StartOrder ==
    op \in StartOps =>
      LET reg_list == supported_modes[mode].reg_list
          common   == StageRegs(wlog, "common")
      IN  /\ \A i, j \in 1..Len(wlog) :
                i < j => StageRank(wlog[i].stage) <= StageRank(wlog[j].stage)
          /\ wlog # << >> =>
                /\ wlog[1].stage \in { "common", "mode" }
                /\ (wlog[1].stage = "common") <=> ~wlog[1].crw
          /\ IsPrefix(common, mode_common_regs)
          /\ IsPrefix(StageRegs(wlog, "mode"), reg_list)
          /\ HasStage(wlog, "mode") =>
                /\ common \in { << >>, mode_common_regs }
                /\ ~StageFailed(wlog, "common")
                /\ \A i \in 1..Len(wlog) : wlog[i].stage = "mode" => wlog[i].crw
          /\ HasStage(wlog, "ctrl") =>
                /\ StageRegs(wlog, "mode") = reg_list
                /\ ~StageFailed(wlog, "mode")
          /\ HasStage(wlog, "select") =>
                /\ IsReplay(wlog)
                /\ StageRegs(wlog, "select") = SelectStreaming
          /\ SelectDone(wlog) => wlog[Len(wlog)].stage = "select"

\* a start on a freshly powered device that ran to its last write
C1_Witness ==
    /\ op = "set_stream_on"
    /\ ret = 0
    /\ streaming
    /\ SelectDone(wlog)
    /\ StageRegs(wlog, "common") = mode_common_regs

\* C2: when any write of the start sequence of set_stream(true) fails,
\* set_stream returns an error, streaming stays false, the runtime-PM
\* reference taken for the attempt is released, and no mode-select write
\* follows the failure.
C2_StartFailureReported ==
    [][ (op' = "set_stream_on" /\ AnyFailed(wlog')) =>
          /\ ret' < 0
          /\ ~streaming'
          /\ usage_count' = usage_count
          /\ \A i, j \in 1..Len(wlog') :
                (i < j /\ ~wlog'[i].ok) => wlog'[j].stage # "select"
      ]_vars

\* C3: a failed write inside the common block leaves common_regs_written
\* and streaming false, and a start that finds common_regs_written false
\* writes the common block from its first entry, whole unless a write of
\* it fails again.
C3_CommonBlockRestarts ==
    [][ /\ (op' \in StartOps /\ StageFailed(wlog', "common")) =>
              (~common_regs_written' /\ ~streaming')
        /\ (op' \in StartOps /\ wlog' # << >> /\ ~common_regs_written) =>
              /\ wlog'[1].stage = "common"
              /\ Reg(wlog'[1].reg, wlog'[1].val) = mode_common_regs[1]
              /\ \/ StageFailed(wlog', "common")
                 \/ StageRegs(wlog', "common") = mode_common_regs
      ]_vars

\* a start that got past the first entry of the common block and failed
\* inside the block
C3_Witness ==
    /\ op = "set_stream_on"
    /\ Len(wlog) >= 2
    /\ wlog[1].ok
    /\ StageFailed(wlog, "common")
    /\ ~common_regs_written

\* C4: every write of a mode register list, of a control value and of the
\* streaming value is issued while common_regs_written is true, whatever
\* power transitions, suspends and resumes came before.
C4_WritesAfterCommon ==
    \A i \in 1..Len(wlog) :
        wlog[i].stage \in { "mode", "ctrl", "select" } => wlog[i].crw

\* a control written by the user while the device is powered and in use
C4_Witness ==
    /\ op = "s_ctrl"
    /\ wlog # << >>
    /\ wlog[1].stage = "ctrl"
    /\ wlog[1].ok

\* C5: common_regs_written becomes false with every arducam_64mp_power_off
\* and by nothing else, becomes true only by a complete successful write
\* of the common block, and is left as it was by arducam_64mp_power_on,
\* failed or not.
C5_CommonFlagFrame ==
    [][ /\ (common_regs_written /\ ~common_regs_written') => op' = "power_off"
        /\ op' = "power_off" => ~common_regs_written'
        /\ (~common_regs_written /\ common_regs_written') =>
              /\ op' \in StartOps
              /\ StageRegs(wlog', "common") = mode_common_regs
              /\ ~StageFailed(wlog', "common")
        /\ (pon' # "none" /\ (StageRegs(wlog', "common") # mode_common_regs
                              \/ StageFailed(wlog', "common"))) =>
              common_regs_written' = common_regs_written
      ]_vars

\* the device was powered down after its common block had been written
C5_Witness ==
    /\ op = "power_off"
    /\ ~common_regs_written
    /\ ~rpm_active
    /\ reset_gpio = 0

\* C6: set_stream(enable) with streaming already equal to enable returns
\* 0, issues no write and changes neither the usage count nor any other
\* driver state.
C6_SetStreamIdempotent ==
    [][ ((op' = "set_stream_on" /\ streaming)
         \/ (op' = "set_stream_off" /\ ~streaming)) =>
          /\ ret' = 0
          /\ wlog' = << >>
          /\ pon' = "none"
          /\ UNCHANGED << mode, fmt_code, streaming, common_regs_written,
                          long_exp_shift, ctrls, usage_count, rpm_active,
                          supplies, xclk, reset_gpio, hw >>
      ]_vars

\* set_stream(true) was called on a streaming sensor
C6_Witness ==
    /\ op = "set_stream_on"
    /\ streaming
    /\ wlog = << >>
    /\ ret = 0

\* C7: set_stream(false) on a streaming sensor writes standby to the
\* mode-select register, ends with streaming false and one runtime-PM
\* reference fewer, and returns 0 even when the standby write fails.
C7_StopAlwaysSucceeds ==
    [][ (op' = "set_stream_off" /\ streaming) =>
          /\ ~streaming'
          /\ usage_count' = usage_count - 1
          /\ ret' = 0
          /\ StageRegs(wlog', "standby") = SelectStandby
          /\ Len(wlog') = 1
      ]_vars

\* a stop whose standby write failed
C7_Witness ==
    /\ op = "set_stream_off"
    /\ wlog # << >>
    /\ ~wlog[1].ok
    /\ ~streaming
    /\ ret = 0

\* C8: a successful set_stream(true) locks hflip and vflip, a stop unlocks
\* them, and after a failed set_stream(true) both are unlocked.
C8_FlipLock ==
    /\ (op = "set_stream_on" /\ ret = 0) => (Grabbed("hflip") /\ Grabbed("vflip"))
    /\ (op = "set_stream_off" /\ wlog # << >>) =>
          (~Grabbed("hflip") /\ ~Grabbed("vflip"))
    /\ (op = "set_stream_on" /\ ret # 0) =>
          (~Grabbed("hflip") /\ ~Grabbed("vflip"))

\* C9: resume with streaming set runs the start sequence again and, when
\* that run fails, returns the error and leaves streaming false; resume
\* with streaming clear issues no write.
C9_ResumeRestarts ==
    [][ op' = "resume" =>
          /\ ~streaming => (wlog' = << >> /\ ret' = 0 /\ ~streaming')
          /\ streaming =>
                /\ wlog' # << >>
                /\ wlog'[1].stage \in { "common", "mode" }
                /\ ret' <= 0
                /\ ret' < 0 => ~streaming'
                /\ ret' < 0 => (AnyFailed(wlog') /\ ~SelectDone(wlog'))
                /\ ret' = 0 => (streaming' /\ SelectDone(wlog'))
      ]_vars

\* a resume whose start sequence failed
C9_Witness ==
    /\ op = "resume"
    /\ ret < 0
    /\ ~streaming
    /\ AnyFailed(wlog)
    /\ wlog[Len(wlog)].stage = "standby"

\* C10: suspend on a streaming sensor writes standby to the mode-select
\* register and keeps streaming set, and the resume that follows issues
\* exactly the start sequence: the common block only if
\* common_regs_written is false, the mode list, the control replay and the
\* streaming value.  Suspend on a sensor that is not streaming issues no
\* write.
C10_SuspendResume ==
    [][ /\ op' = "suspend" =>
              /\ ret' = 0
              /\ streaming' = streaming
              /\ streaming => (/\ Len(wlog') = 1
                               /\ StageRegs(wlog', "standby") = SelectStandby)
              /\ ~streaming => wlog' = << >>
        /\ (op = "suspend" /\ op' = "resume" /\ streaming
            /\ ~AnyFailed(wlog')) =>
              /\ StageRegs(wlog', "common")
                    = IF common_regs_written THEN << >> ELSE mode_common_regs
              /\ StageRegs(wlog', "mode") = supported_modes[mode'].reg_list
              /\ IsReplay(wlog)'
              /\ StageRegs(wlog', "select") = SelectStreaming
              /\ wlog'[Len(wlog')].stage = "select"
              /\ Len(wlog') = Len(StageRegs(wlog', "common"))
                              + Len(StageRegs(wlog', "mode"))
                              + Len(StageRegs(wlog', "ctrl")) + 1
              /\ streaming'
      ]_vars

\* a resume after a streaming suspend that went through
C10_Witness ==
    /\ op = "resume"
    /\ ret = 0
    /\ streaming
    /\ wlog # << >>
    /\ wlog[1].stage = "mode"
    /\ ~AnyFailed(wlog)

(***************************************************************************)
(* Properties of the timing controls.                                      *)
(***************************************************************************)
InUse == rpm_active /\ usage_count > 0

\* the exposure maximum that belongs to a vblank value in the active mode
ExposureMaxFor(vblank) ==
    supported_modes[mode].height + vblank - ARDUCAM_64MP_EXPOSURE_OFFSET

\* the entries of lg that are successful writes of register reg
OkWrites(lg, reg) ==
    LET T(e) == e.reg = reg /\ e.ok
    IN  SelectSeq(lg, T)

\* C16: in every state exposure.max equals mode.height + v_blank - 48 for
\* the current v_blank value and the active mode, also after a v_blank
\* edit whose register write failed and after a change of the active mode.
C16_ExposureMaxTracksVblank ==
    ctrls["exposure"].maximum = ExposureMaxFor(ctrls["vblank"].cur)

\* C17: in every state the exposure value is at most exposure.max, and a
\* v_blank change that lowers exposure.max below the exposure value writes
\* the clamped exposure before it writes the frame length.
C17_ExposureClamped ==
    /\ ctrls["exposure"].cur <= ctrls["exposure"].maximum
    /\ op = "s_ctrl" =>
          \A i, j \in 1..Len(wlog) :
              (wlog[i].reg = ARDUCAM_64MP_REG_FRAME_LENGTH
               /\ wlog[j].reg = ARDUCAM_64MP_REG_EXPOSURE) => j < i

\* C19: while the device stays powered the stored long-exposure shift
\* changes only together with a successful frame-length write, and then it
\* is the shift of the frame length written, whether or not the write of
\* the shift register that follows succeeds.
C19_ShiftMatchesFrameLength ==
    [][ (rpm_active /\ rpm_active') =>
          IF OkWrites(wlog', ARDUCAM_64MP_REG_FRAME_LENGTH) = << >>
          THEN long_exp_shift' = long_exp_shift
          ELSE long_exp_shift'
                 = long_exp_loop(ctrls'["vblank"].val
                                 + supported_modes[mode'].height, 0)[2]
      ]_vars

MinShift(raw) ==
    CHOOSE k \in 0..ARDUCAM_64MP_LONG_EXP_SHIFT_MAX :
        /\ raw \div (2 ^ k) <= ARDUCAM_64MP_FRAME_LENGTH_MAX
        /\ \A j \in 0..(k - 1) :
              raw \div (2 ^ j) > ARDUCAM_64MP_FRAME_LENGTH_MAX

\* C18: applying v_blank writes (v_blank + mode.height) >> k to the
\* frame-length register and then k to the long-exposure-shift register,
\* k being the least shift that brings the value into 16 bits; a raw
\* frame length of 200000 gives shift 2 and register value 50000.
C18_FrameLengthShift ==
    op = "set_frame_length" =>
      LET raw == ctrls["vblank"].val + supported_modes[mode].height
          k   == MinShift(raw)
      IN  /\ long_exp_shift = k
          /\ Len(wlog) >= 1
          /\ wlog[1].reg = ARDUCAM_64MP_REG_FRAME_LENGTH
          /\ wlog[1].len = ARDUCAM_64MP_REG_VALUE_16BIT
          /\ wlog[1].val = raw \div (2 ^ k)
          /\ wlog[1].ok =>
                /\ Len(wlog) = 2
                /\ wlog[2].reg = ARDUCAM_64MP_LONG_EXP_SHIFT_REG
                /\ wlog[2].len = ARDUCAM_64MP_REG_VALUE_08BIT
                /\ wlog[2].val = k
          /\ ~wlog[1].ok => Len(wlog) = 1
          /\ raw = 200000 => (k = 2 /\ wlog[1].val = 50000)

\* the raw frame length 200000 was applied and both writes went through
C18_Witness ==
    /\ op = "set_frame_length"
    /\ ctrls["vblank"].val + supported_modes[mode].height = 200000
    /\ Len(wlog) = 2
    /\ wlog[1].val = 50000
    /\ wlog[2].val = 2
    /\ wlog[2].ok


(***************************************************************************)
(* Properties of format negotiation.                                       *)
(***************************************************************************)
\* the variables that hold the driver and the device, as opposed to what
\* the last entry point reported
devvars == << mode, fmt_code, streaming, common_regs_written, long_exp_shift,
              ctrls, usage_count, rpm_active, supplies, xclk, reset_gpio, hw,
              suspended, req >>

\* entry 2*v + h of the fixed ordering, for the flips as committed
FlipCode(cs) == codes[2 * cs["vflip"].cur + cs["hflip"].cur + 1]

C14_ExactSizeAndCrop ==
    /\ \A i \in 1..Len(supported_modes) :
          req = << supported_modes[i].width, supported_modes[i].height >>
             => mode = i
    /\ (op = "get_selection" /\ ret = 0 /\ out.target = "CROP") =>
          /\ out.r = supported_modes[mode].crop
          /\ \A i \in 1..Len(supported_modes) :
                req = << supported_modes[i].width, supported_modes[i].height >>
                   => out.r = supported_modes[i].crop

\* the crop read after a set_format of 1920x1080 is the one declared for it
C14_Witness ==
    /\ op = "get_selection"
    /\ ret = 0
    /\ out.target = "CROP"
    /\ req = << 1920, 1080 >>
    /\ mode = 6
    /\ out.r = Rect(832, 1352, 7680, 4320)

\* C15: the encoding that get_format, set_format and enum_mbus_code report
\* on the image pad is entry 2*v + h of codes for the flips (h, v) in
\* force; get_format and enum_mbus_code change nothing of the driver or the
\* device, and two reports with no flip change in between agree.
C15_FlipCode ==
    [][/\ (op' \in { "get_fmt", "set_fmt", "enum_mbus_code" } /\ ret' = 0)
          => out'.code = FlipCode(ctrls')
       /\ op' \in { "get_fmt", "enum_mbus_code" } => UNCHANGED devvars
       /\ (/\ op \in { "get_fmt", "set_fmt", "enum_mbus_code" } /\ ret = 0
           /\ op' \in { "get_fmt", "set_fmt", "enum_mbus_code" } /\ ret' = 0)
          => out'.code = out.code]_vars

\* with both flips set, a format read reported the last entry of codes
C15_Witness ==
    /\ op = "get_fmt"
    /\ ctrls["hflip"].cur = 1
    /\ ctrls["vflip"].cur = 1
    /\ out.code = codes[4]
    /\ mode = 6

(***************************************************************************)
(* Properties of the locking.                                              *)
(***************************************************************************)
\* C11: a caller that is inside an entry point holds the device mutex, so
\* that no two callers are inside entry points at the same time.
C11_OperationsHoldMutex ==
    /\ \A t \in Callers : pc[t] # "idle" => mutex = t
    /\ \A t, u \in Callers : (pc[t] # "idle" /\ pc[u] # "idle") => t = u

\* C12: the thread of the system sleep callbacks holds the device mutex
\* while it is inside arducam_64mp_suspend or arducam_64mp_resume, so that
\* no caller is inside an entry point at that time and no entry point runs
\* between two steps of the restart that resume performs.
C12_SleepCallbacksHoldMutex ==
    /\ pc["pm"] # "idle" => mutex = "pm"
    /\ pc["pm"] # "idle" => \A t \in Callers : pc[t] = "idle"
    /\ pc["pm"] = "resume_ctrls" => op = "resume_regs"
    /\ pc["pm"] = "resume_select" => op = "resume_ctrls"

\* the entry points that compute the flip-derived code under the mutex
CodeCalls == { "open", "get_fmt", "set_fmt" }

\* thread t is inside an entry point that is computing the code
InGetFormatCode(t) ==
    \/ pc[t] = "enum"
    \/ pc[t] = "locked" /\ loc[t].f \in CodeCalls

\* C28: whenever arducam_64mp_get_format_code runs, the thread that called
\* it holds the device mutex, whichever entry point it came through.
C28_FormatCodeUnderMutex ==
    \A t \in Callers : InGetFormatCode(t) => mutex = t

(***************************************************************************)
(* Properties of the register-list writer and of power-up.                 *)
(***************************************************************************)
\* C21: arducam_64mp_write_regs writes the entries of its list in the
\* given order and stops at the first write that fails: the transfers it
\* issued are the entries up to and including the failing one, each with
\* its address and value, every one before the failing one succeeded and
\* none is issued after it; it returns the error of the failing write,
\* and 0 exactly when every entry of the list was written.
C21_WriteListOrder ==
    op = "write_regs" =>
        /\ Len(wlog) <= Len(out.regs)
        /\ \A k \in 1..Len(wlog) :
              /\ wlog[k].reg = out.regs[k].address
              /\ wlog[k].val = out.regs[k].val
              /\ wlog[k].len = ARDUCAM_64MP_REG_VALUE_08BIT
              /\ (k < Len(wlog) => wlog[k].ok)
        /\ (ret = 0) <=> (/\ Len(wlog) = Len(out.regs)
                          /\ \A k \in 1..Len(wlog) : wlog[k].ok)
        /\ ret # 0 => /\ ret = 0 - EIO
                      /\ Len(wlog) >= 1
                      /\ ~wlog[Len(wlog)].ok

\* the second of three entries failed on a bus that works again afterwards
C21_Witness ==
    /\ op = "write_regs"
    /\ ret = 0 - EIO
    /\ Len(out.regs) = 3
    /\ Len(wlog) = 2
    /\ wlog[1].ok
    /\ ~wlog[2].ok

\* C24: a power_on that fails leaves nothing enabled.  When enabling the
\* rails fails nothing else is called and the error is returned; when
\* enabling the clock fails the rails are disabled again before the error
\* is returned; the reset line is driven and the settling wait made only
\* after both succeeded, and then nothing is disabled.  After a failed
\* power_on the rails and the clock are off and the device is in reset.
C24_PowerOnRollback ==
    /\ pon = "failed" =>
          /\ ret = 0 - EIO
          /\ plog \in
               { << PCall("regulator_bulk_enable", 0 - EIO) >>,
                 << PCall("regulator_bulk_enable", 0),
                    PCall("clk_prepare_enable", 0 - EIO),
                    PCall("regulator_bulk_disable", 0) >> }
          /\ ~supplies /\ ~xclk /\ reset_gpio = 0
    /\ pon = "ok" =>
          /\ plog = << PCall("regulator_bulk_enable", 0),
                       PCall("clk_prepare_enable", 0),
                       PCall("gpiod_set_value_cansleep", 1),
                       PCall("usleep_range", 0) >>
          /\ supplies /\ xclk /\ reset_gpio = 1
    /\ reset_gpio = 1 => supplies /\ xclk

\* set_stream(1) met a clock that did not start
C24_Witness ==
    /\ op = "set_stream_on"
    /\ pon = "failed"
    /\ Len(plog) = 3
    /\ plog[2] = PCall("clk_prepare_enable", 0 - EIO)

(***************************************************************************)
(* Properties of the streaming state.                                      *)
(***************************************************************************)
\* the device holds the register table of the active mode
DeviceHasActiveMode ==
    hw[ModeTableReg] = supported_modes[mode].reg_list[1].val

\* C27: whenever the streaming flag is set, the mode table that
\* arducam_64mp_start_streaming wrote to the device last is the table of
\* the active mode.
C27_StreamingModeRegisters ==
    streaming => DeviceHasActiveMode

\* C29: between operations, hflip and vflip are each locked exactly when
\* the streaming flag is set.
C29_FlipsLockedIffStreaming ==
    /\ Grabbed("hflip") <=> streaming
    /\ Grabbed("vflip") <=> streaming

\* C30: between operations, the driver holds one runtime-PM reference
\* while the streaming flag is set and none while it is clear.
C30_OneReferenceIffStreaming ==
    usage_count = (IF streaming THEN 1 ELSE 0)

\* the 16-bit value the device holds in its exposure register
ExposureRegister ==
    hw[ARDUCAM_64MP_REG_EXPOSURE] * 256 + hw[ARDUCAM_64MP_REG_EXPOSURE + 1]

\* C26: while the sensor streams on a bus that never failed, the exposure
\* register holds the current value of the exposure control shifted right
\* by the content of the long-exposure-shift register.
C26_ExposureFollowsShift ==
    streaming =>
        ExposureRegister =
            ctrls["exposure"].cur \div (2 ^ hw[ARDUCAM_64MP_LONG_EXP_SHIFT_REG])

(***************************************************************************)
(* Properties of the frame timing across mode changes.                     *)
(***************************************************************************)
\* the largest frame length the long-exposure shift can express
FrameLengthLimit ==
    (2 ^ ARDUCAM_64MP_LONG_EXP_SHIFT_MAX) * ARDUCAM_64MP_FRAME_LENGTH_MAX

\* C31: in every state the height of the active mode plus v_blank is at
\* most 128 * 0xFFFF, and the stored long-exposure shift is within 0..7.
C31_ShiftWithinRange ==
    /\ supported_modes[mode].height + ctrls["vblank"].cur <= FrameLengthLimit
    /\ long_exp_shift \in 0..ARDUCAM_64MP_LONG_EXP_SHIFT_MAX

\* C32: every value the driver hands to the 16-bit frame-length register
\* and to the 16-bit exposure register is at most 0xFFFF, so the register
\* receives the value unshortened.
C32_NoTruncatedWrite ==
    \A i \in 1..Len(wlog) :
        wlog[i].reg \in { ARDUCAM_64MP_REG_FRAME_LENGTH,
                          ARDUCAM_64MP_REG_EXPOSURE }
            => /\ wlog[i].len = ARDUCAM_64MP_REG_VALUE_16BIT
               /\ wlog[i].arg <= ARDUCAM_64MP_FRAME_LENGTH_MAX
               /\ wlog[i].val = wlog[i].arg

\* v_blank of mode m at its default frame interval
DefaultVblank(m) ==
    arducam_64mp_get_frame_length(supported_modes[m],
                                  supported_modes[m].timeperframe_default)
    - supported_modes[m].height

\* C33: after initialisation and after every active set_format on the
\* image pad, v_blank has minimum and value default_frame_length -
\* mode.height and maximum 128 * 0xFFFF - mode.height for the mode now
\* active, and the maximum of exposure is the one of that v_blank.
C33_FramingLimitsFollowMode ==
    op \in { "probe", "set_fmt" } =>
        /\ ctrls["vblank"].minimum = DefaultVblank(mode)
        /\ ctrls["vblank"].maximum
             = FrameLengthLimit - supported_modes[mode].height
        /\ ctrls["vblank"].cur = DefaultVblank(mode)
        /\ ctrls["exposure"].maximum
             = supported_modes[mode].height + DefaultVblank(mode)
               - ARDUCAM_64MP_EXPOSURE_OFFSET

\* C35: in every state the minimum, the maximum and the value of h_blank
\* are line_length_pix - width of the active mode, and h_blank is
\* read-only.
C35_HblankFollowsMode ==
    LET hblank == supported_modes[mode].line_length_pix
                  - supported_modes[mode].width
    IN  /\ ctrls["hblank"].minimum = hblank
        /\ ctrls["hblank"].maximum = hblank
        /\ ctrls["hblank"].cur = hblank
        /\ ctrls["hblank"].read_only

\* C38: in every state the range of exposure is not empty and holds the
\* value of exposure: EXPOSURE_MIN <= exposure <= exposure.max.
C38_ExposureInsideRange ==
    /\ ctrls["exposure"].minimum = ARDUCAM_64MP_EXPOSURE_MIN
    /\ ARDUCAM_64MP_EXPOSURE_MIN <= ctrls["exposure"].cur
    /\ ctrls["exposure"].cur <= ctrls["exposure"].maximum

(***************************************************************************)
(* Properties of the mode catalog.                                         *)
(***************************************************************************)
\* rectangle a lies inside rectangle b
Inside(a, b) ==
    /\ a.left >= b.left
    /\ a.top >= b.top
    /\ a.left + a.width <= b.left + b.width
    /\ a.top + a.height <= b.top + b.height

\* the rectangle get_selection reports as crop bounds and crop default
PixelArrayRect ==
    Rect(ARDUCAM_64MP_PIXEL_ARRAY_LEFT, ARDUCAM_64MP_PIXEL_ARRAY_TOP,
         ARDUCAM_64MP_PIXEL_ARRAY_WIDTH, ARDUCAM_64MP_PIXEL_ARRAY_HEIGHT)

\* the rectangle get_selection reports as native size
NativeRect ==
    Rect(0, 0, ARDUCAM_64MP_NATIVE_WIDTH, ARDUCAM_64MP_NATIVE_HEIGHT)

\* C36: the crop rectangle that get_selection reports for the active mode,
\* whichever mode of the catalog that is, lies inside the rectangle it
\* reports as crop bounds and crop default, (48, 40, 9248, 6944), and
\* that one lies inside the native rectangle (0, 0, 9344, 7032).
C36_CropInsideBounds ==
    (op = "get_selection" /\ ret = 0) =>
        /\ out.target = "CROP" => Inside(out.r, PixelArrayRect)
        /\ out.target \in { "CROP_BOUNDS", "CROP_DEFAULT" } =>
              (out.r = PixelArrayRect /\ Inside(out.r, NativeRect))
        /\ out.target = "NATIVE_SIZE" => out.r = NativeRect

\* floor(n * PIXEL_RATE / (d * line_length_pix)), by dividing twice
FrameLengthQuotient(m, tpf) ==
    MulDivMod(tpf.numerator, ARDUCAM_64MP_PIXEL_RATE,
              supported_modes[m].line_length_pix)[1] \div tpf.denominator

C37_CatalogDefaultsUnclamped ==
    (/\ op = "get_frame_length"
     /\ out.timeperframe = supported_modes[out.mode].timeperframe_default) =>
        /\ out.quotient = FrameLengthQuotient(out.mode, out.timeperframe)
        /\ out.quotient <= ARDUCAM_64MP_FRAME_LENGTH_MAX
        /\ out.quotient >= supported_modes[out.mode].height
        /\ out.value = out.quotient
        /\ DefaultVblank(out.mode)
             = out.quotient - supported_modes[out.mode].height

\* the 1280x720 mode at its default 120 frames per second: 1083 lines
C37_Witness ==
    /\ op = "get_frame_length"
    /\ out.mode = 7
    /\ out.timeperframe = Fract(100, 12000)
    /\ out.value = 1083

(***************************************************************************)
(* Properties of the mutex under fair scheduling                           *)
(***************************************************************************)
\* C39: every entry point that takes the mutex gives it back before it
\* returns, on the success path and on every error path (set_stream that
\* changes nothing, failed power-up, failed start sequence): a caller that
\* is not inside an entry point never holds the mutex, a held mutex is
\* always released, and under fair scheduling every caller waiting at
\* mutex_lock gets the mutex.
C39_MutexReleasedAndAcquired ==
    /\ [](\A t \in Callers : pc[t] \in { "idle", "lock" } => mutex # t)
    /\ \A t \in Callers : (mutex = t) ~> (mutex = "none")
    /\ \A t \in Callers : (pc[t] = "lock") ~> (mutex = t)

\* set_stream(1) has failed under the mutex and returned, and the caller
\* that waited meanwhile holds the mutex
C39_Witness ==
    /\ op = "set_stream"
    /\ ret < 0
    /\ ~streaming
    /\ pc["t1"] = "idle"
    /\ mutex = "t2"

(***************************************************************************)
(* Properties of try formats, the metadata pad and rejected arguments.     *)
(***************************************************************************)
\* C22: a set_format with which = try, on either pad, leaves the active
\* mode, the controls with their ranges, the long-exposure shift, the
\* streaming and common_regs_written flags and the device as they were and
\* issues no register write; of the file handle's state it changes at most
\* the try format of the pad it names.
C22_TryTouchesScratchOnly ==
    [][(op' = "set_fmt" /\ out'.which = "try") =>
          /\ UNCHANGED devvars
          /\ wlog' = << >>
          /\ sd_state'.try_crop = sd_state.try_crop
          /\ \A p \in 0..(NUM_PADS - 1) :
                p # out'.pad => sd_state'.try_fmt[p] = sd_state.try_fmt[p]]_vars

\* a try format was set on the image pad of a streaming sensor
C22_Witness ==
    /\ op = "set_fmt"
    /\ ret = 0
    /\ out.which = "try"
    /\ out.pad = IMAGE_PAD
    /\ streaming
    /\ mode = 1
    /\ sd_state.try_fmt[IMAGE_PAD].width = 1920

\* C23: whatever geometry is asked for, set_format and get_format on the
\* metadata pad, try or active, answer with the one format of that pad:
\* ARDUCAM_64MP_EMBEDDED_LINE_WIDTH x ARDUCAM_64MP_NUM_EMBEDDED_LINES,
\* sensor data.
C23_MetadataFormatFixed ==
    (op \in { "set_fmt", "get_fmt" } /\ ret = 0 /\ out.pad = METADATA_PAD) =>
      /\ out.width = 34680
      /\ out.height = 1
      /\ out.code = MEDIA_BUS_FMT_SENSOR_DATA

\* the calls of C25 that the driver has to refuse
OutOfRange(o, c, cs) ==
    \/ /\ o \in { "get_fmt", "set_fmt", "enum_mbus_code", "enum_frame_size" }
       /\ c.pad >= NUM_PADS
    \/ o = "enum_mbus_code" /\ c.index > 0
    \/ /\ o = "enum_frame_size"
       /\ \/ c.index >= Len(supported_modes)
          \/ c.pad = IMAGE_PAD /\ c.code # FlipCode(cs)
    \/ /\ o = "get_selection"
       /\ c.target \notin { "CROP", "NATIVE_SIZE", "CROP_DEFAULT",
                             "CROP_BOUNDS" }

\* C25: a get_format, set_format, enum_mbus_code or enum_frame_size with a
\* pad of NUM_PADS or more, an enum_mbus_code with an index above 0, an
\* enum_frame_size with an index past the catalog or with a code other
\* than the one the flips give, and a get_selection of an unsupported
\* target return -EINVAL, write no register and leave the driver, the
\* device and the try state as they were.
C25_OutOfRangeRejected ==
    [][OutOfRange(op', out', ctrls) =>
          /\ ret' = 0 - EINVAL
          /\ wlog' = << >>
          /\ UNCHANGED << devvars, sd_state >>]_vars

\* an enum_frame_size that named the code of the unflipped sensor was
\* refused after an h-flip
C25_Witness ==
    /\ op = "enum_frame_size"
    /\ ret = 0 - EINVAL
    /\ out.pad = IMAGE_PAD
    /\ out.index = 0
    /\ out.code = codes[1]
    /\ ctrls["hflip"].cur = 1


=============================================================================
